---------------------------- MODULE Spec2Model ----------------------------
(***************************************************************************)
(* Audioalgo/Percept.py: the perception-level audio-to-vibration           *)
(* translator (process_file and the functions it calls).                   *)
(*                                                                         *)
(* Numbers.  Python floats are modelled as fixed-point integers (TLC has   *)
(* 32-bit integers only).  The unit of every quantity is fixed here:       *)
(*   La, Ra, Iv, Rv      1/PU   (PU = 113000, so that 801/113 is exact)    *)
(*   S, r1, r2           1/SU   (SU = 56300, so that x/56.3 is exact)      *)
(*   disc, sqrt(disc)    1/1000                                            *)
(*   A, a1, a2           1/1000000                                         *)
(*   samples, sin        1/1000                                            *)
(* Rounding below one unit is the model's stand-in for float rounding.     *)
(***************************************************************************)
EXTENDS Integers, Sequences, FiniteSets, TLC

VARIABLES
    pc,           \* position in process_file / in the function harness
    probe,        \* what the harness was handed (the arguments under test)
    content,      \* the content tag
    La, Ra,       \* auditory loudness and roughness of the current frame
    Iv, Rv,       \* vibrotactile targets
    amp,          \* amplitudes_from_percepts: its result and its locals
    audio,        \* the waveform read_wav_mono_44k returned
    n_out_total,  \* length of the output buffer
    vib_full,     \* the output buffer
    start,        \* the loop variable of line 188
    block,        \* the current frame
    vib_seg,      \* the synthesized segment of the current frame
    out,          \* n_out, out_start, out_end of the current frame
    current_rms,  \* line 219
    out_wav,      \* what sf.write was given
    cli,          \* the command line's files and the exit code of the run
    workers,      \* per frame, the position of the worker that places it and
                  \* the slice of the buffer it has read
    call          \* a function called on its own: its name, argument and result

pipe == <<audio, n_out_total, vib_full, start, block, vib_seg, out, current_rms, out_wav>>

vars == <<pc, probe, content, La, Ra, Iv, Rv, amp, pipe, cli, workers, call>>

----------------------------------------------------------------------------
(* Constants, Percept.py lines 21-38 *)

AUDIO_SR == 44100
VIB_SR == 8000
FRAME_S == 4096
F1 == 175
F2 == 210
\* thousandths
CR == 35
OR == 400
CV == 1
CL == 100
OL == 3800

PU == 113 * 1000
SU == 563 * 100

----------------------------------------------------------------------------
(* Fixed-point arithmetic *)

Min(a, b) == IF a <= b THEN a ELSE b
Max(a, b) == IF a >= b THEN a ELSE b
Abs(a) == IF a >= 0 THEN a ELSE -a

\* F(v) with v evaluated once, the way an assignment to a local evaluates its
\* right-hand side once
Bind(v, F(_)) == CHOOSE y \in {F(x) : x \in {v}} : TRUE

\* <<q, m>> with r*b = q*d + m and 0 <= m < d, for 0 <= r < d and b >= 0,
\* without ever forming r*b: b is taken bit by bit
RECURSIVE MulDivBits(_, _, _)
MulDivBits(r, b, d) ==
    IF b = 0 THEN <<0, 0>>
    ELSE LET h == MulDivBits(r, b \div 2, d)
             m == 2 * h[2] + (b % 2) * r
         IN  <<2 * h[1] + (m \div d), m % d>>

\* the same for d < 2^19: b is taken in three digits of base 2048, from the
\* highest
MulDivDigits(r, b, d) ==
    LET t2 == r * (b \div (2048 * 2048))
        t1 == (t2 % d) * 2048 + r * ((b \div 2048) % 2048)
        t0 == (t1 % d) * 2048 + r * (b % 2048)
    IN  <<((t2 \div d) * 2048 + t1 \div d) * 2048 + t0 \div d, t0 % d>>

MulDivPair(r, b, d) ==
    IF d < 524288 THEN MulDivDigits(r, b, d) ELSE MulDivBits(r, b, d)

\* a*b/d for a, b >= 0, d > 0 (rounded down)
MulDivNat(a, b, d) == (a \div d) * b + MulDivPair(a % d, b, d)[1]

\* a*b/d for any sign of a and b (rounded toward zero)
MulDiv(a, b, d) ==
    Bind(<<a, b>>, LAMBDA p :
        IF (p[1] >= 0) = (p[2] >= 0) THEN MulDivNat(Abs(p[1]), Abs(p[2]), d)
        ELSE -MulDivNat(Abs(p[1]), Abs(p[2]), d))

\* the a with (256*a)^2 <= n < (256*(a + 1))^2, for n >= 0; 181*256 is the
\* largest multiple of 256 whose square is below 2^31
IsqrtBlock(n) ==
    CHOOSE a \in 0..181 :
        /\ (256 * a) * (256 * a) <= n
        /\ a = 181 \/ (256 * (a + 1)) * (256 * (a + 1)) > n

\* the largest r with r*r <= n; 46340 is the largest integer whose square is
\* below 2^31
IsqrtFrom(n, a) ==
    CHOOSE r \in (256 * a)..Min(256 * a + 255, 46340) :
        /\ r * r <= n
        /\ r = 46340 \/ (r + 1) * (r + 1) > n

Isqrt(n) ==
    Bind(n, LAMBDA m : IF m <= 0 THEN 0
                       ELSE Bind(IsqrtBlock(m), LAMBDA a : IsqrtFrom(m, a)))

\* math.sqrt of a value in thousandths, in thousandths
SqrtMilli(x) == Isqrt(x * 1000)

\* math.sqrt of a value in 1/PU, in 1/PU
SqrtPU(x) == 113 * SqrtMilli(x \div 113)

\* 10^(j/20) for j = 0..20, in thousandths: the grid on which log10 and
\* powers are interpolated
Pow10Table ==
    <<1000, 1122, 1259, 1413, 1585, 1778, 1995, 2239, 2512, 2818, 3162,
      3548, 3981, 4467, 5012, 5623, 6310, 7079, 7943, 8913, 10000>>

\* the j in 1..20 with Pow10Table[j] <= m < Pow10Table[j+1], for 1000 <= m < 10000
RECURSIVE TableIndex(_, _)
TableIndex(m, j) == IF j = 20 \/ m < Pow10Table[j + 1] THEN j ELSE TableIndex(m, j + 1)

\* log10 of a mantissa in [1, 10) given in thousandths, in 1/10000
LogMantissa(m) ==
    LET j == TableIndex(m, 1)
    IN  (j - 1) * 500 + ((m - Pow10Table[j]) * 500) \div (Pow10Table[j + 1] - Pow10Table[j])

\* log10 of x > 0 given in thousandths, in 1/10000
RECURSIVE Log10From(_, _)
Log10From(x, e) ==
    IF x >= 10000 THEN Log10From(x \div 10, e + 1)
    ELSE IF x < 1000 THEN Log10From(x * 10, e - 1)
    ELSE e * 10000 + LogMantissa(x)

Log10(x) == Log10From(x, 0)

RECURSIVE TenTo(_)
TenTo(e) == IF e = 0 THEN 1 ELSE 10 * TenTo(e - 1)

\* 10^y for y in 1/10000, in thousandths
Pow10(y) ==
    LET e == y \div 10000
        f == y % 10000
        j == f \div 500 + 1
        m == Pow10Table[j] + ((Pow10Table[j + 1] - Pow10Table[j]) * (f - 500 * (j - 1))) \div 500
    IN  IF e >= 0 THEN m * TenTo(e)
        ELSE IF e < -4 THEN 0
        ELSE m \div TenTo(-e)

\* math.exp(-z) for z >= 0 in 1/10000, in thousandths (log10(e) = 0.4343)
ExpNeg(z) == Pow10(-MulDiv(z, 4343, 10000))

\* x**p for x > 0 in thousandths and p in thousandths, in thousandths
Power(x, p) == Pow10(MulDiv(Log10(x), p, 1000))

----------------------------------------------------------------------------
(* Frames.  The code reads a frame's samples only through                  *)
(* np.abs(np.fft.rfft(frame)) (lines 66 and 80), so a frame is            *)
(* modelled by that magnitude spectrum: a level on every bin (floor) and   *)
(* a higher level on a few bins (lines).  Magnitudes are in thousandths.   *)
(* A frame of all-zero samples has the all-zero spectrum.                  *)

Spectra ==
    [silence |-> [floor |-> 0,     level |-> 0,       lines |-> {}],
     tone    |-> [floor |-> 1000,  level |-> 2000000, lines |-> {41}],
     rough   |-> [floor |-> 10000, level |-> 100000,
                  lines |-> {40, 42, 44, 46, 48, 50, 52, 54}],
     harsh   |-> [floor |-> 30000, level |-> 400000,
                  lines |-> {20, 22, 24, 26, 28, 30, 32, 34, 36, 38}]]

FrameKinds == DOMAIN Spectra

\* mag[k] of np.abs(np.fft.rfft(frame)), k in 0..FRAME_S/2
Mag(kind, k) ==
    IF k \in Spectra[kind].lines THEN Spectra[kind].level ELSE Spectra[kind].floor

\* np.fft.rfftfreq(frame.size, 1/AUDIO_SR)[k], in tenths of a Hz
Freq(k) == (k * 10 * AUDIO_SR) \div FRAME_S

\* the bins kept by mask = (freqs >= 25) & (freqs <= f_max)
FirstBin == CHOOSE k \in 0..(FRAME_S \div 2) :
                /\ k * AUDIO_SR >= 25 * FRAME_S
                /\ \A j \in 0..(k - 1) : j * AUDIO_SR < 25 * FRAME_S
LastBin(f_max) == CHOOSE k \in 0..(FRAME_S \div 2) :
                /\ k * AUDIO_SR <= f_max * FRAME_S
                /\ (k < FRAME_S \div 2 => (k + 1) * AUDIO_SR > f_max * FRAME_S)

----------------------------------------------------------------------------
(* ISO-226 60-phon contour, Percept.py lines 42-50 *)

\* tenths of a Hz
ISO_FREQ ==
    <<250, 315, 400, 500, 630, 800, 1000, 1250, 1600, 2000, 2500, 3150, 4000,
      5000, 6300, 8000, 10000, 12500, 16000, 20000, 25000, 31500, 40000,
      50000, 63000>>

\* hundredths of a dB
ISO_SPL60 ==
    <<10423, 9908, 9418, 8996, 8594, 8205, 7865, 7556, 7247, 6986, 6753, 6539,
      6345, 6205, 6081, 5989, 6001, 6215, 6319, 5996, 5726, 5642, 5757, 6089,
      6636>>

RECURSIVE IsoSegment(_, _)
IsoSegment(f, i) ==
    IF i = Len(ISO_FREQ) - 1 \/ f < ISO_FREQ[i + 1] THEN i ELSE IsoSegment(f, i + 1)

\* variant: the value of the last control point at or below f, not interpolated
iso60phon_Step(f) ==
    IF f <= ISO_FREQ[1] THEN ISO_SPL60[1] ELSE ISO_SPL60[IsoSegment(f, 1)]

\* np.interp(f, _ISO_FREQ, _ISO_SPL60, left=_ISO_SPL60[0], right=_ISO_SPL60[-1])
iso60phon(f) ==
    IF f <= ISO_FREQ[1] THEN ISO_SPL60[1]
    ELSE IF f >= ISO_FREQ[Len(ISO_FREQ)] THEN ISO_SPL60[Len(ISO_SPL60)]
    ELSE LET i == IsoSegment(f, 1)
         IN  ISO_SPL60[i] + ((ISO_SPL60[i + 1] - ISO_SPL60[i]) * (f - ISO_FREQ[i]))
                                \div (ISO_FREQ[i + 1] - ISO_FREQ[i])

----------------------------------------------------------------------------
(* 1. auditory_loudness, Percept.py lines 54-75 *)

\* thousandths
c == 1370
C_fullband == 65
C_bass == 1910
\* Hz
F_fullband == 6400
F_bass == 200

\* 20*log10(x + 1e-12) for x >= 0 in thousandths, in hundredths of a dB; the
\* 1e-12 decides the value only at x = 0, where it gives -240 dB
Decibel(x) == IF x = 0 THEN -24000 ELSE Log10(x) \div 5

RECURSIVE SumOver(_, _, _)
SumOver(F(_), lo, hi) ==
    IF lo > hi THEN 0
    ELSE IF lo = hi THEN F(lo)
    ELSE LET mid == (lo + hi) \div 2
         IN  SumOver(F, lo, mid) + SumOver(F, mid + 1, hi)

\* the loudness before the clamp of line 75, in 1/PU
RawLoudness(kind, cont) ==
    LET C_use == IF cont = "music" THEN C_bass ELSE C_fullband
        f_max == IF cont = "music" THEN F_bass ELSE F_fullband
        \* db/af of bin k, in 1/10000
        ratio(k) == (Decibel(MulDiv(c, Mag(kind, k), 1000)) * 10000) \div iso60phon(Freq(k))
    IN  MulDiv(SumOver(ratio, FirstBin, LastBin(f_max)), C_use * 113, 10000)

\* variant: line 75 returns the sum without max(0.0, .)
auditory_loudness_NoClamp(kind, cont) == RawLoudness(kind, cont)

auditory_loudness(kind, cont) == Max(0, RawLoudness(kind, cont))

----------------------------------------------------------------------------
(* 2. auditory_roughness, Percept.py lines 79-104 *)

\* hundredths of a dB
peak_db == -4000

RECURSIVE MaxOver(_, _, _)
MaxOver(F(_), lo, hi) ==
    IF lo = hi THEN F(lo)
    ELSE LET mid == (lo + hi) \div 2
         IN  Max(MaxOver(F, lo, mid), MaxOver(F, mid + 1, hi))

\* the last index of the run of equal values that starts at i
RECURSIVE RunEnd(_, _, _)
RunEnd(db, i, hi) == IF i < hi /\ db[i + 1] = db[i] THEN RunEnd(db, i + 1, hi) ELSE i

\* scipy.signal.find_peaks(db, height=thresh): the bins that are strict local
\* maxima (the middle of a flat top), not at either end, and at least thresh
find_peaks(db, lo, hi, thresh) ==
    {(i + RunEnd(db, i, hi)) \div 2 : i \in
        {i \in (lo + 1)..(hi - 1) :
            /\ db[i - 1] < db[i]
            /\ RunEnd(db, i, hi) < hi
            /\ db[RunEnd(db, i, hi) + 1] < db[i]
            /\ db[i] >= thresh}}

\* one pair's contribution (lines 97-103), in thousandths
PairTerm(fa, xa, fb, xb) ==
    LET xm == Min(xa, xb)
        xM == Max(xa, xb)
        fd == Abs(fb - fa)
        \* s*fd, in 1/10000, with s = 0.24/(0.0207*min(f1, f2) + 18.96)
        sfd == MulDiv(2400 * fd, 10000, 207 * Min(fa, fb) + 1896000)
        term == MulDiv(Power(MulDiv(xm, xM, 1000), 100),
                       Power(MulDiv(2 * xm, 1000, xm + xM), 3110), 1000) \div 2
    IN  MulDiv(term, ExpNeg(MulDiv(sfd, 350, 100)) - ExpNeg(MulDiv(sfd, 575, 100)), 1000)

\* the sorted sequence of a finite set of integers
RECURSIVE Sorted(_)
Sorted(set) ==
    IF set = {} THEN <<>>
    ELSE LET m == CHOOSE x \in set : \A y \in set : x <= y
         IN  <<m>> \o Sorted(set \ {m})

\* the pairs (i, j) that the double loop of lines 95-96 visits from (i, j)
\* on, in the order of the visits (indices from 1)
RECURSIVE LoopFrom(_, _, _)
LoopFrom(i, j, n) ==
    IF i > n THEN <<>>
    ELSE IF j > n THEN LoopFrom(i + 1, i + 2, n)
    ELSE <<<<i, j>>>> \o LoopFrom(i, j + 1, n)

\* for i in range(n): for j in range(i+1, n)
LoopOrder(n) == LoopFrom(1, 2, n)

\* variant: the inner loop runs over every other index, for j in range(n)
\* with j != i, so that each pair is visited in both orders
LoopPairs_BothOrders(n) == {p \in (1..n) \X (1..n) : p[1] # p[2]}

\* the pairs (i, j) of the double loop of lines 95-96
LoopPairs(n) == {p \in (1..n) \X (1..n) : p[1] < p[2]}

RECURSIVE SumPairs(_, _, _)
SumPairs(kind, pk, pairs) ==
    IF pairs = {} THEN 0
    ELSE LET p == CHOOSE q \in pairs : TRUE
         IN  PairTerm(Freq(pk[p[1]]), Mag(kind, pk[p[1]]), Freq(pk[p[2]]), Mag(kind, pk[p[2]]))
             + SumPairs(kind, pk, pairs \ {p})

\* the peaks of a frame, as the sorted sequence of their bins
PeaksOf(kind) ==
    LET lo == FirstBin
        hi == LastBin(6400)
        db == [k \in lo..hi |-> Decibel(Mag(kind, k))]
        thresh == MaxOver(LAMBDA k : db[k], lo, hi) + peak_db
    IN  Sorted(find_peaks(db, lo, hi, thresh))

\* in 1/PU
auditory_roughness(kind) ==
    LET pk == PeaksOf(kind)
    IN  113 * SumPairs(kind, pk, LoopPairs(Len(pk)))

----------------------------------------------------------------------------
(* 3. perceptual_targets: (La, Ra) -> (Iv, Rv), Percept.py lines 108-118 *)

\* variant: eq.(8) without its offset OL
IvMusic_NoOffset(la) == MulDiv(CL, la, 1000)

IvMusic(la) == MulDiv(CL, la, 1000) - 113 * OL

IvGame(la, ra) ==
    MulDiv(MulDiv(CR, SqrtPU(la), 1000), MulDiv(ra, ra, PU), PU) - 113 * OR

\* lines 110-116, before the clamp of line 117; math.sqrt(La) of line 114
\* raises ValueError for La < 0
\* variant: a tag other than music, game and movie is rejected
RawTargets_KnownTags(la, ra, cont) ==
    [raised |-> cont \notin {"music", "game", "movie"} \/ (cont # "music" /\ la < 0),
     Iv |-> IF cont = "music" THEN IvMusic(la) ELSE IvGame(la, ra),
     Rv |-> CV * ra]

\* variant: eq.(9) with a gain of its own for music
RawTargets_MusicGain(la, ra, cont) ==
    [raised |-> cont # "music" /\ la < 0,
     Iv |-> IF cont = "music" THEN IvMusic(la) ELSE IvGame(la, ra),
     Rv |-> IF cont = "music" THEN 2 * CV * ra ELSE CV * ra]

RawTargets(la, ra, cont) ==
    LET iv == IF cont = "music" THEN IvMusic(la) ELSE IvGame(la, ra)
        rv == CV * ra
    IN  IF cont # "music" /\ la < 0 THEN [raised |-> TRUE, Iv |-> 0, Rv |-> 0]
        ELSE [raised |-> FALSE, Iv |-> iv, Rv |-> rv]

\* variant: line 117, Iv = max(0.0, Iv), left out
perceptual_targets_NoClamp(la, ra, cont) == RawTargets(la, ra, cont)

perceptual_targets(la, ra, cont) ==
    Bind(RawTargets(la, ra, cont), LAMBDA t : [t EXCEPT !.Iv = Max(0, t.Iv)])

----------------------------------------------------------------------------
(* 4. amplitudes_from_percepts, Percept.py lines 122-151 *)

\* the locals of a call that returned at line 124
EarlyReturn == [early |-> TRUE, raised |-> FALSE, a1 |-> 0, a2 |-> 0, Rv_max |-> 0, Rv_adj |-> 0,
                disc |-> 0, inner_eps |-> 0, disc_eps |-> 0, r1 |-> 0, r2 |-> 0,
                valid |-> <<>>, S |-> 0, A |-> 0]

\* line 127: 801/113 + 0.529*Iv + 0.479, in 1/PU
RvMax(iv) == 801000 + MulDiv(529, iv, 1000) + 54127

\* line 130: 801 - 113*(Rv_adj - 0.529*Iv - 0.479), clamped at 0, in thousandths
\* (113 times a value in 1/PU is that value in thousandths)
Disc(iv, rv_adj) == Max(0, 801000 - (rv_adj - MulDiv(529, iv, 1000) - 54127))

\* variant: the roots are not filtered to [0, 1]
ValidRoots_Unfiltered(r1, r2) == <<r1, r2>>

\* variant: only r1 is tested and kept
ValidRoots_FirstOnly(r1, r2) == SelectSeq(<<r1>>, LAMBDA s : 0 <= s /\ s <= SU)

\* [s for s in (r1, r2) if 0.0 <= s <= 1.0]
ValidRoots(r1, r2) == SelectSeq(<<r1, r2>>, LAMBDA s : 0 <= s /\ s <= SU)

\* variant: max() in place of min()
MinOf_Max(seq) == IF Len(seq) = 1 THEN seq[1] ELSE Max(seq[1], seq[2])

\* min() of a non-empty list of at most two entries
MinOf(seq) == IF Len(seq) = 1 THEN seq[1] ELSE Min(seq[1], seq[2])

\* line 140: 28.3/56.3, in 1/SU
FallbackS == 28300

\* line 144: (25.8*S**2 - 25.5*S + Rv_adj - 0.203) / 3.98, in thousandths
AmplitudeRoot(S, rv_adj) ==
    LET s2 == MulDiv(S, S, SU)
        x  == (25800 * s2) \div SU - (25500 * S) \div SU + rv_adj \div 113 - 203
    IN  MulDiv(x, 1000, 3980)

\* variant: the square of line 144 left out
TotalAmplitude_NoSquare(S, rv_adj) == 1000 * AmplitudeRoot(S, rv_adj)

\* line 144: ((25.8*S**2 - 25.5*S + Rv_adj - 0.203) / 3.98)**2, in millionths
TotalAmplitude(S, rv_adj) == Bind(AmplitudeRoot(S, rv_adj), LAMBDA y : y * y)

\* variant: S scales the 175 Hz tone instead of the 210 Hz tone
Split_Swapped(A, S) == [a1 |-> MulDiv(A, S, SU), a2 |-> A - MulDiv(A, S, SU)]

\* lines 149-150: a2 = A * S, a1 = A - a2
Split(A, S) == [a2 |-> MulDiv(A, S, SU), a1 |-> A - MulDiv(A, S, SU)]

\* lines 126-151: the inversion proper
Solve(iv, rv) ==
    Bind(RvMax(iv), LAMBDA Rv_max :
    Bind(Min(rv, Rv_max), LAMBDA Rv_adj :
    Bind(Disc(iv, Rv_adj), LAMBDA disc :
    Bind(28300 + SqrtMilli(disc), LAMBDA r1 :
    Bind(28300 - SqrtMilli(disc), LAMBDA r2 :
    Bind(ValidRoots(r1, r2), LAMBDA valid :
    Bind(IF valid # <<>> THEN MinOf(valid) ELSE FallbackS, LAMBDA S :
    Bind(TotalAmplitude(S, Rv_adj), LAMBDA A :
    Bind(Split(A, S), LAMBDA a :
        \* math.sqrt raises ValueError on a negative argument
        [early |-> FALSE, raised |-> disc < 0, a1 |-> a.a1, a2 |-> a.a2,
         Rv_max |-> Rv_max, Rv_adj |-> Rv_adj, disc |-> disc, inner_eps |-> 0,
         disc_eps |-> 0, r1 |-> r1, r2 |-> r2,
         valid |-> valid, S |-> S, A |-> A])))))))))

\* variant: the guard of line 123 left out
amplitudes_from_percepts_NoGuard(iv, rv) == Solve(iv, rv)

\* variant: the guard of line 123 as Iv < 0.0
amplitudes_from_percepts_StrictGuard(iv, rv) ==
    IF iv < 0 THEN EarlyReturn ELSE Solve(iv, rv)

amplitudes_from_percepts(iv, rv) ==
    IF iv <= 0 THEN EarlyReturn ELSE Solve(iv, rv)

\* Line 130 in floating point.  Where 801.0 - 113.0*(Rv_adj - 0.529*Iv - 0.479)
\* is 0 at the resolution of disc (Rv_adj = Rv_max), the float the code
\* computes is the rounding error of that expression: a few units of 2^-43
\* below 0, 0, or a few units above 0, depending on the bits of Iv.  The
\* model keeps its sign.
Residues == {-1, 0, 1}

\* variant: line 130 without max(0.0, .)
ClampResidue_None(e) == e

\* max(0.0, .) of line 130 on the rounding error
ClampResidue(e) == Max(0, e)

\* the locals of a call in which the rounding error of line 130 is e:
\* inner_eps is the sign of the unclamped value and disc_eps that of disc,
\* both below the resolution of disc; math.sqrt raises on a negative disc
Rounded(a, e) ==
    IF a.early \/ a.disc # 0 THEN a
    ELSE [a EXCEPT !.inner_eps = e, !.disc_eps = ClampResidue(e),
                   !.raised = ClampResidue(e) < 0]

----------------------------------------------------------------------------
(* 5. synth_vibration, Percept.py lines 155-158 *)

\* sin(pi*p/h) for 0 <= p <= h, in thousandths (Bhaskara's formula, exact at
\* 0, h/2 and h, within 0.002 elsewhere)
\* 16*q/(5*h*h - 4*q) with q = p*(h - p), both sides of the fraction over 64
HalfWave(p, h) == (250 * p * (h - p)) \div ((5 * h * h - 4 * p * (h - p)) \div 64)

\* sin(2*pi*p/VIB_SR) for every phase p in 0..VIB_SR-1
SinTable ==
    [p \in 0..(VIB_SR - 1) |->
        IF 2 * p <= VIB_SR THEN HalfWave(p, VIB_SR \div 2)
        ELSE -HalfWave(p - VIB_SR \div 2, VIB_SR \div 2)]

\* sin(2*pi*F*t) at t = i/VIB_SR
Tone(F, i) == SinTable[(F * i) % VIB_SR]

\* variant: the time axis runs on from the frame's place in the output
synth_vibration_RunningTime(a1, a2, n_samples) ==
    [i \in 1..n_samples |->
        ((a1 \div 1000) * Tone(F1, i - 1 + (start * VIB_SR) \div AUDIO_SR)
         + (a2 \div 1000) * Tone(F2, i - 1 + (start * VIB_SR) \div AUDIO_SR)) \div 1000]

\* a1, a2 in millionths; the samples in thousandths
synth_vibration(a1, a2, n_samples) ==
    [i \in 1..n_samples |->
        ((a1 \div 1000) * Tone(F1, i - 1) + (a2 \div 1000) * Tone(F2, i - 1)) \div 1000]

----------------------------------------------------------------------------
(* 7. process_file, Percept.py lines 178-229 *)

\* np.ceil(num/den) for num >= 0
\* variant: int() truncation in place of np.ceil
Ceil_Floor(num, den) == num \div den

Ceil(num, den) == (num + den - 1) \div den

\* round(num/den) for num >= 0: Python rounds a tie to the even neighbour
Round(num, den) ==
    LET q == num \div den
        r == num % den
    IN  IF 2 * r < den THEN q
        ELSE IF 2 * r > den THEN q + 1
        ELSE IF q % 2 = 0 THEN q ELSE q + 1

\* seq[a:] of Python, a >= 0
SliceFrom(seq, a) == IF a >= Len(seq) THEN <<>> ELSE SubSeq(seq, a + 1, Len(seq))

\* variant: seq[:b] is the whole of seq
SliceTo_Whole(seq, b) == seq

\* seq[:b] of Python
SliceTo(seq, b) ==
    IF b >= 0 THEN SubSeq(seq, 1, Min(b, Len(seq)))
    ELSE SubSeq(seq, 1, Max(0, Len(seq) + b))

\* whether numpy accepts lhs += rhs for one-dimensional operands
Broadcasts(lhs, rhs) == Len(rhs) = Len(lhs) \/ Len(rhs) = 1

\* lhs += rhs
AddInto(lhs, rhs) ==
    [i \in 1..Len(lhs) |-> lhs[i] + (IF Len(rhs) = 1 THEN rhs[1] ELSE rhs[i])]

NoProbe == [kind |-> "pipeline", S |-> 0]
NoBlock == [lo |-> 0, taken |-> 0, pad |-> 0, fill |-> 0, kind |-> "silence"]
NoOut == [n_out |-> 0, out_start |-> 0, out_end |-> 0]
\* current_rms: nan is np.mean of an empty array
NoRms == [nan |-> FALSE, val |-> 0]
NotWritten == [written |-> FALSE, data |-> <<>>]
\* no function is called on its own
NoCall == [fn |-> "none", arg |-> 0, out |-> 0]
\* process_file called on a readable file, outside the command line
NoCli == [input_file |-> "ok", output_dir |-> "none", exited |-> FALSE, exit_code |-> 0]

\* variant: the hop follows the overlap argument, which line 261 passes as 0.5
HOP_S_Half == FRAME_S \div 2

\* variant: the hop follows the overlap argument, hop = FRAME_S * (1 - overlap),
\* the overlap in thousandths
HOP_S_FromOverlap == (FRAME_S * (1000 - call.arg)) \div 1000

\* line 184
HOP_S == FRAME_S

\* variant: lines 192-194 left out, the last block is analysed as it is
Frame_NoPad(au, st) ==
    [lo |-> st, taken |-> Min(FRAME_S, au.len - st), pad |-> 0, fill |-> 0,
     kind |-> au.kinds[st \div FRAME_S + 1]]

\* the frame of the samples audio[start:start+FRAME_S], with pad samples of
\* the value fill appended (np.pad in "constant" mode appends zeros)
Frame(au, st) ==
    LET taken == Min(FRAME_S, au.len - st)
    IN  [lo |-> st, taken |-> taken, pad |-> FRAME_S - taken, fill |-> 0,
         kind |-> au.kinds[st \div FRAME_S + 1]]

\* lines 183-186; sf.read (line 163) raises on a file it cannot open or decode
Begin ==
    /\ pc = "Start"
    /\ IF cli.input_file = "ok"
       THEN /\ n_out_total' = Ceil(audio.len * VIB_SR, AUDIO_SR)
            /\ vib_full' = [i \in 1..n_out_total' |-> 0]
            /\ start' = 0
            /\ pc' = "loop"
       ELSE /\ pc' = "raised"
            /\ UNCHANGED <<n_out_total, vib_full, start>>
    /\ UNCHANGED <<call, workers, cli, probe, content, La, Ra, Iv, Rv, amp, audio, block, vib_seg,
                   out, current_rms, out_wav>>

\* lines 188-194: more frames remain
Extract ==
    /\ pc = "loop"
    /\ start < audio.len
    /\ block' = Frame(audio, start)
    /\ pc' = IF block'.taken = 0 THEN "normalize" ELSE "analyze"
    /\ UNCHANGED <<call, workers, cli, probe, content, La, Ra, Iv, Rv, amp, audio, n_out_total,
                   vib_full, start, vib_seg, out, current_rms, out_wav>>

\* the analysis of every frame kind, computed once
AnalysisOf(k) == [music |-> auditory_loudness(k, "music"),
                  other |-> auditory_loudness(k, "game"),
                  rough |-> auditory_roughness(k)]
Analysis == [silence |-> AnalysisOf("silence"), tone |-> AnalysisOf("tone"),
             rough |-> AnalysisOf("rough"), harsh |-> AnalysisOf("harsh")]

\* lines 197-198
Analyze ==
    /\ pc = "analyze"
    /\ La' = IF content = "music" THEN Analysis[block.kind].music
                                  ELSE Analysis[block.kind].other
    /\ Ra' = Analysis[block.kind].rough
    /\ pc' = "map"
    /\ UNCHANGED <<call, workers, cli, probe, content, Iv, Rv, amp, pipe>>

\* line 199
MapTargets ==
    /\ pc = "map"
    /\ LET t == perceptual_targets(La, Ra, content)
       IN  /\ Iv' = t.Iv /\ Rv' = t.Rv
           /\ pc' = IF t.raised THEN "raised" ELSE "invert"
    /\ UNCHANGED <<call, workers, cli, probe, content, La, Ra, amp, pipe>>

\* line 200
Invert ==
    /\ pc = "invert"
    /\ \E a \in {amplitudes_from_percepts(Iv, Rv)} : \E e \in Residues :
          amp' = Rounded(a, e)
    /\ pc' = IF amp'.raised THEN "raised" ELSE "synthesize"
    /\ UNCHANGED <<call, workers, cli, probe, content, La, Ra, Iv, Rv, pipe>>

\* lines 205-206
Synthesize ==
    /\ pc = "synthesize"
    /\ LET n_out == Round(FRAME_S * VIB_SR, AUDIO_SR)
       IN  /\ out' = [out EXCEPT !.n_out = n_out]
           /\ vib_seg' = synth_vibration(amp.a1, amp.a2, n_out)
    /\ pc' = "place"
    /\ UNCHANGED <<call, workers, cli, probe, content, La, Ra, Iv, Rv, amp, audio, n_out_total,
                   vib_full, start, block, current_rms, out_wav>>

\* line 209
OutStart(st) == Round(st * VIB_SR, AUDIO_SR)

\* variant: every segment is added from the start of the buffer
Placed_FromZero(buf, seg, out_start, out_end, total) ==
    [raised |-> FALSE,
     buf |-> AddInto(SubSeq(buf, 1, Min(Len(seg), Len(buf))),
                     SubSeq(seg, 1, Min(Len(seg), Len(buf))))
             \o SliceFrom(buf, Min(Len(seg), Len(buf)))]

\* lines 211-214: the buffer after the segment was added, or the ValueError
\* numpy raises when the two slices do not fit
Placed(buf, seg, out_start, out_end, total) ==
    Bind(IF out_end > total THEN SliceFrom(buf, out_start)
         ELSE SubSeq(buf, out_start + 1, Min(out_end, Len(buf))), LAMBDA lhs :
    Bind(IF out_end > total THEN SliceTo(seg, total - out_start) ELSE seg, LAMBDA rhs :
        IF Broadcasts(lhs, rhs)
        THEN [raised |-> FALSE,
              buf |-> SubSeq(buf, 1, Min(out_start, Len(buf))) \o AddInto(lhs, rhs)
                      \o SliceFrom(buf, out_start + Len(lhs))]
        ELSE [raised |-> TRUE, buf |-> buf]))

\* lines 209-214, and the loop's next start
Place ==
    /\ pc = "place"
    /\ out' = [out EXCEPT !.out_start = OutStart(start),
                          !.out_end = OutStart(start) + out.n_out]
    /\ \E res \in {Placed(vib_full, vib_seg, out'.out_start, out'.out_end, n_out_total)} :
          /\ vib_full' = res.buf
          /\ pc' = IF res.raised THEN "raised" ELSE "loop"
          /\ start' = IF res.raised THEN start ELSE start + HOP_S
    /\ UNCHANGED <<call, workers, cli, probe, content, La, Ra, Iv, Rv, amp, audio, n_out_total,
                   block, vib_seg, current_rms, out_wav>>

\* the sum of x[i]**2 over the i of block idx (from 0) of the blocks of
\* size indices, size a power of two, in units of 1/100000 (each square
\* rounded down)
RECURSIVE SumSquaresIn(_, _, _)
SumSquaresIn(x, size, idx) ==
    Bind(<<size, idx>>, LAMBDA p :
        IF p[1] * p[2] >= Len(x) THEN 0
        ELSE IF p[1] = 1 THEN (x[p[2] + 1] * x[p[2] + 1]) \div 10
        ELSE SumSquaresIn(x, p[1] \div 2, 2 * p[2])
                + SumSquaresIn(x, p[1] \div 2, 2 * p[2] + 1))

\* np.sum(x**2) for up to 2^17 samples
SumSquares(x) == SumSquaresIn(x, 131072, 0)

\* np.sqrt(np.mean(x**2)) in millionths, from the sum of squares and the
\* length; the square root is taken at the finest scale that fits 32 bits
RootMeanSquare(sum, n) ==
    Bind(sum, LAMBDA s :
        IF s <= 214 THEN Isqrt((s * 10000000) \div n)
        ELSE IF s <= 21474 THEN 10 * Isqrt((s * 100000) \div n)
        ELSE IF s <= 2147483 THEN 100 * Isqrt((s * 1000) \div n)
        ELSE IF s <= 214748364 THEN 1000 * Isqrt((s * 10) \div n)
        ELSE 10000 * Isqrt(s \div (10 * n)))

\* thousandths
target_rms == 150

\* x * (num/den) for a sample x, rounded toward zero
Scaled(x, num, den) == IF x >= 0 THEN (x * num) \div den ELSE -((-x * num) \div den)

\* line 219: current_rms; np.mean of an empty array is nan
CurrentRms(buf) ==
    IF Len(buf) = 0 THEN [nan |-> TRUE, val |-> 0]
    ELSE [nan |-> FALSE, val |-> RootMeanSquare(SumSquares(buf), Len(buf))]

\* variant: the guard of line 221 compares with target_rms
ScaledBy_TargetGuard(buf, rms) ==
    IF ~rms.nan /\ rms.val > 1000 * target_rms
    THEN [i \in 1..Len(buf) |-> Scaled(buf[i], target_rms * 1000, rms.val)]
    ELSE buf

\* lines 221-223: the buffer after the guarded scaling; current_rms > 1e-6
\* is false for nan
ScaledBy(buf, rms) ==
    IF ~rms.nan /\ rms.val > 1
    THEN [i \in 1..Len(buf) |-> Scaled(buf[i], target_rms * 1000, rms.val)]
    ELSE buf

\* lines 218-223: current_rms and the buffer after the guarded scaling
Normalized(buf) == [rms |-> CurrentRms(buf), buf |-> ScaledBy(buf, CurrentRms(buf))]

\* lines 216-223, entered when the loop is left
NormalizeWhen(loop_left) ==
    /\ loop_left
    /\ current_rms' = CurrentRms(vib_full)
    /\ vib_full' = ScaledBy(vib_full, current_rms')
    /\ pc' = "clip"
    /\ UNCHANGED <<call, workers, cli, probe, content, La, Ra, Iv, Rv, amp, audio, n_out_total,
                   start, block, vib_seg, out, out_wav>>

\* variant: the normalization does not wait for the end of the loop
Normalize_Early == NormalizeWhen(pc = "loop")

\* lines 216-223: the input is exhausted (line 188) or the loop broke (line 191)
Normalize ==
    NormalizeWhen(\/ pc = "loop" /\ start >= audio.len
                  \/ pc = "normalize")

\* np.clip(x, -1.0, 1.0)
\* variant: line 226 left out
Clipped_None(buf) == buf

Clipped(buf) == [i \in 1..Len(buf) |-> Max(-1000, Min(1000, buf[i]))]

\* line 226
Clip ==
    /\ pc = "clip"
    /\ vib_full' = Clipped(vib_full)
    /\ pc' = "write"
    /\ UNCHANGED <<call, workers, cli, probe, content, La, Ra, Iv, Rv, amp, audio, n_out_total,
                   start, block, vib_seg, out, current_rms, out_wav>>

\* line 229
Write ==
    /\ pc = "write"
    /\ out_wav' = [written |-> TRUE, data |-> vib_full]
    /\ pc' = "Done"
    /\ UNCHANGED <<call, workers, cli, probe, content, La, Ra, Iv, Rv, amp, audio, n_out_total,
                   vib_full, start, block, vib_seg, out, current_rms>>

Next ==
    \/ Begin
    \/ Extract
    \/ Analyze
    \/ MapTargets
    \/ Invert
    \/ Synthesize
    \/ Place
    \/ Normalize
    \/ Clip
    \/ Write

----------------------------------------------------------------------------
(* Inputs of process_file *)

MaxFrames == 2
LongFrames == 13
TailSamples == 20

Contents == {"game", "music", "movie"}

\* whole frames, then a last frame of 0, 1 or TailSamples samples
Lengths ==
    {k * FRAME_S + d : k \in 0..MaxFrames, d \in {0, 1, TailSamples}}
        \cup {LongFrames * FRAME_S + TailSamples}

NumFrames(n) == (n + FRAME_S - 1) \div FRAME_S

\* two seconds of silence at 44100 Hz
TwoSecondsOfSilence ==
    [len |-> 2 * AUDIO_SR, kinds |-> [i \in 1..NumFrames(2 * AUDIO_SR) |-> "silence"]]

\* a long input with a last frame of one sample
OneSampleMore ==
    [len |-> LongFrames * FRAME_S + 1,
     kinds |-> [i \in 1..NumFrames(LongFrames * FRAME_S + 1) |-> "harsh"]]

\* one kind throughout, or silence but for the first or the last frame; a
\* long input has one kind throughout
KindSeqs(m) ==
    {[i \in 1..m |-> k] : k \in FrameKinds}
        \cup (IF m > MaxFrames + 1 THEN {}
              ELSE {[i \in 1..m |-> IF i = b THEN k ELSE "silence"] :
                        b \in {1, m} \cap (1..m), k \in FrameKinds})

Init ==
    /\ pc = "Start"
    /\ probe = NoProbe
    /\ content \in Contents
    /\ \/ \E n \in Lengths : \E ks \in KindSeqs(NumFrames(n)) :
             audio = [len |-> n, kinds |-> ks]
       \/ audio = TwoSecondsOfSilence
       \/ audio = OneSampleMore
    /\ La = 0 /\ Ra = 0 /\ Iv = 0 /\ Rv = 0
    /\ amp = EarlyReturn
    /\ n_out_total = 0 /\ vib_full = <<>> /\ start = 0
    /\ block = NoBlock /\ vib_seg = <<>> /\ out = NoOut
    /\ current_rms = NoRms /\ out_wav = NotWritten /\ cli = NoCli /\ workers = <<>> /\ call = NoCall

Spec == Init /\ [][Next]_vars

\* the interpreter runs the statement that comes next
FairSpec == Spec /\ WF_vars(Next)

----------------------------------------------------------------------------
(* Properties of process_file (under Spec) *)

Allocated == probe.kind = "pipeline" /\ pc # "Start"

\* m = ceil(n * 8000 / 44100)
IsCeil(m, n) ==
    /\ m * AUDIO_SR >= n * VIB_SR
    /\ (m - 1) * AUDIO_SR < n * VIB_SR

\* C1: for every input of n >= 0 samples the output buffer has exactly
\* ceil(n * 8000 / 44100) samples, from its allocation on: placing,
\* normalizing and clipping keep the length, and so has the written output.
C1_OutputLength ==
    /\ Allocated => IsCeil(Len(vib_full), audio.len)
    /\ pc = "Done" => IsCeil(Len(out_wav.data), audio.len)

C1_Witness ==
    /\ pc = "Done"
    /\ audio.len > FRAME_S
    /\ audio.len % FRAME_S # 0
    /\ IsCeil(Len(out_wav.data), audio.len)
    /\ \E i \in 1..Len(out_wav.data) : out_wav.data[i] # 0

\* C2 as claimed: the placement ranges of consecutive frames are contiguous
\* and strictly increasing: when frame k+1 is placed, its out_start is frame
\* k's out_end and is greater than frame k's out_start.
C2_Contiguous ==
    [][(pc = "place" /\ pc' = "loop" /\ start > 0) =>
          /\ out'.out_start = out.out_end
          /\ out'.out_start > out.out_start]_vars

Bounded(buf) == \A i \in 1..Len(buf) : -1000 <= buf[i] /\ buf[i] <= 1000

\* C3: once process_file has clipped, every sample of the output buffer, and
\* of the written output, lies in [-1.0, 1.0], whatever the input and
\* whatever factor the RMS normalization applied.
C3_OutputInRange ==
    /\ (probe.kind = "pipeline" /\ pc \in {"write", "Done"}) => Bounded(vib_full)
    /\ pc = "Done" => out_wav.written /\ Bounded(out_wav.data)

\* the clip acted on a sample the normalization had scaled beyond 1
C3_Witness ==
    /\ pc = "Done"
    /\ current_rms.val > 1
    /\ \E i \in 1..Len(out_wav.data) : out_wav.data[i] \in {-1000, 1000}

AllZero(buf) == \A i \in 1..Len(buf) : buf[i] = 0

SilentInput ==
    /\ probe.kind = "pipeline"
    /\ \A i \in 1..Len(audio.kinds) : audio.kinds[i] = "silence"

\* C4: for an all-zero input of any length (two seconds at 44100 Hz among
\* them) and any content type, every frame yields the amplitude pair (0, 0),
\* nothing raises, the RMS normalization is skipped (the RMS is not above
\* 1e-6 and nothing is divided) and every sample of the output is exactly 0.
C4_SilenceInSilenceOut ==
    SilentInput =>
        /\ pc # "raised"
        /\ pc \in {"synthesize", "place"} => amp.a1 = 0 /\ amp.a2 = 0
        /\ AllZero(vib_full)
        /\ pc \in {"clip", "write", "Done"} => current_rms.nan \/ current_rms.val <= 1
        /\ pc = "Done" => out_wav.written /\ AllZero(out_wav.data)

C4_Witness ==
    /\ SilentInput
    /\ audio.len > FRAME_S
    /\ pc = "Done"
    /\ Len(out_wav.data) > 0
    /\ AllZero(out_wav.data)
    /\ ~current_rms.nan /\ current_rms.val = 0

SilentFrame == probe.kind = "pipeline" /\ block.kind = "silence" /\ block.taken > 0

\* C5: for a frame of 4096 zero samples and any content type,
\* auditory_loudness returns 0 because the negative sum is clamped,
\* auditory_roughness returns 0 because no peak is detected, and the pair
\* obtained through perceptual_targets and amplitudes_from_percepts is (0, 0).
C5_SilentFrame ==
    SilentFrame =>
        /\ pc = "map" => /\ La = 0
                         /\ RawLoudness(block.kind, content) < 0
                         /\ Ra = 0
                         /\ PeaksOf(block.kind) = <<>>
        /\ pc = "invert" => Iv = 0
        /\ pc = "synthesize" => amp.a1 = 0 /\ amp.a2 = 0

C5_Witness ==
    /\ SilentFrame
    /\ content = "music"
    /\ pc = "synthesize"
    /\ La = 0 /\ Ra = 0 /\ amp.a1 = 0 /\ amp.a2 = 0
    /\ \E i \in 1..Len(audio.kinds) : audio.kinds[i] # "silence"

\* the order of the steps of one pass
StepOrder ==
    {<<"Start", "loop">>, <<"loop", "analyze">>, <<"analyze", "map">>,
     <<"map", "invert">>, <<"invert", "synthesize">>, <<"synthesize", "place">>,
     <<"place", "loop">>, <<"loop", "clip">>, <<"clip", "write">>,
     <<"write", "Done">>}

\* C12: every step of a pass follows the order Start, then per frame
\* extract -> analyze -> map -> invert -> synthesize -> place, then normalize,
\* clip, Done.  The normalization is the one step from the loop to the clip
\* and is taken only when every frame has been placed; the clip is the one
\* step that follows it; the output is written only after the clip; nothing
\* leads back from the normalization to a placement, so each of the two
\* happens once and no frame is placed after the normalization.
C12_StepOrder ==
    [][probe.kind = "pipeline" =>
          /\ <<pc, pc'>> \in StepOrder
          /\ pc' = "clip" =>
                /\ start >= audio.len
                /\ audio.len > 0 =>
                      /\ out.out_start = OutStart(start - HOP_S)
                      /\ start - HOP_S < audio.len
                /\ vib_full' = Normalized(vib_full).buf
          /\ pc' = "write" => vib_full' = Clipped(vib_full)
          /\ out_wav' # out_wav => pc = "write" /\ out_wav'.data = vib_full
          /\ (pc \notin {"Start", "place", "loop", "clip"}) => vib_full' = vib_full
          /\ (pc = "loop" /\ pc' # "clip") => vib_full' = vib_full]_vars

C12_Witness ==
    /\ probe.kind = "pipeline"
    /\ pc = "Done"
    /\ audio.len > 2 * FRAME_S
    /\ start >= audio.len
    /\ current_rms.val > 1
    /\ out_wav.written
    /\ out_wav.data = vib_full

\* how many of the steps of Next can be taken
EnabledSteps ==
    LET en == <<ENABLED Begin, ENABLED Extract, ENABLED Analyze, ENABLED MapTargets,
                ENABLED Invert, ENABLED Synthesize, ENABLED Place, ENABLED Normalize,
                ENABLED Clip, ENABLED Write>>
    IN  Cardinality({i \in 1..Len(en) : en[i]})

\* every state but Done has exactly one step, and the loop head takes the
\* frame exactly when samples remain (it leaves, by the one other step,
\* when none does)
OneStepUntilDone ==
    /\ EnabledSteps = (IF pc = "Done" THEN 0 ELSE 1)
    /\ pc = "loop" => (ENABLED Extract) = (start < audio.len)

\* after the loop, start is 4096 times the number of iterations, and that
\* number is ceil(n / 4096)
IterationsDone ==
    pc \in {"clip", "write", "Done"} =>
        /\ start % FRAME_S = 0
        /\ start >= audio.len
        /\ start - FRAME_S < audio.len

\* iteration k (from 0) takes the frame at 4096*k, and the next is k + 1
IterationStep ==
    /\ (pc = "loop" /\ pc' = "analyze") =>
           /\ start % FRAME_S = 0
           /\ block'.lo = start
           /\ start < audio.len
    /\ (pc = "place" /\ pc' = "loop") => start' = start + FRAME_S
    /\ pc # "place" /\ pc # "Start" => start' = start

\* C13: for every input length n the frame loop runs exactly ceil(n / 4096)
\* iterations, at the starts 0, 4096, 8192, ... below n, and the pass then
\* reaches Done; every state but Done has exactly one step, the loop head
\* choosing between 'more frames remain' and 'input exhausted' by start < n.
C13_Termination ==
    /\ [][IterationStep]_vars
    /\ [](OneStepUntilDone /\ IterationsDone)
    /\ <>(pc = "Done")

C13_Witness ==
    /\ probe.kind = "pipeline"
    /\ pc = "Done"
    /\ audio.len = MaxFrames * FRAME_S + 1
    /\ start = (MaxFrames + 1) * FRAME_S
    /\ block.taken = 1

\* C14 as claimed: an empty waveform (0 samples) is rejected before the
\* pipeline is entered: the pass ends in an error reported to the caller,
\* never in Done, and no output waveform is written.
C14_EmptyRejected ==
    (probe.kind = "pipeline" /\ audio.len = 0) =>
        /\ pc # "Done"
        /\ ~out_wav.written

\* lines 197-199 on a frame of the kind: the targets of the frame
TargetsOf(kind, cont) ==
    perceptual_targets(IF cont = "music" THEN Analysis[kind].music
                                         ELSE Analysis[kind].other,
                       Analysis[kind].rough, cont)

\* lines 200-206 on a frame of the kind: the segment of the frame
SegmentOf(kind, cont) ==
    Bind(TargetsOf(kind, cont), LAMBDA t :
    Bind(amplitudes_from_percepts(t.Iv, t.Rv), LAMBDA a :
        synth_vibration(a.a1, a.a2, Round(FRAME_S * VIB_SR, AUDIO_SR))))

\* the segment of every frame kind under either branch of the content tag,
\* computed once
Segments == [k \in FrameKinds |-> [music |-> SegmentOf(k, "music"),
                                   other |-> SegmentOf(k, "game")]]

\* the Iv that line 199 assigns, frame by frame
IvTrajectory(au, cont) ==
    [i \in 1..NumFrames(au.len) |-> TargetsOf(au.kinds[i], cont).Iv]

\* lines 185-214: the buffer after the first m frames were placed
RECURSIVE PlacedUpTo(_, _, _)
PlacedUpTo(au, cont, m) ==
    IF m = 0 THEN [i \in 1..Ceil(au.len * VIB_SR, AUDIO_SR) |-> 0]
    ELSE LET seg == IF cont = "music" THEN Segments[au.kinds[m]].music
                                      ELSE Segments[au.kinds[m]].other
             out_start == OutStart((m - 1) * HOP_S)
         IN  Placed(PlacedUpTo(au, cont, m - 1), seg, out_start,
                    out_start + Len(seg), Ceil(au.len * VIB_SR, AUDIO_SR)).buf

\* lines 183-229: the waveform process_file writes for the input
process_file(au, cont) ==
    Clipped(Normalized(PlacedUpTo(au, cont, NumFrames(au.len))).buf)

Finished == probe.kind = "pipeline" /\ pc = "Done"

Sounding(au, i) == TargetsOf(au.kinds[i], "game").Iv > 0

\* the output samples frame i can write to
RoomFor(au, i) == Ceil(au.len * VIB_SR, AUDIO_SR) - OutStart((i - 1) * HOP_S)

TimesFactor(x, y, rms) ==
    /\ (x >= 0) = (y >= 0) \/ y = 0
    /\ Abs(y) * rms <= Abs(x) * (1000 * target_rms)
    /\ Abs(x) * (1000 * target_rms) - Abs(y) * rms < rms

\* C17: the normalization step takes the RMS of the accumulated buffer; when
\* that RMS is not greater than 1e-6 (or is nan) it leaves every sample as
\* it is, and otherwise it multiplies every sample by the one factor
\* 0.15 / RMS.
C17_RmsGuard ==
    [][(probe.kind = "pipeline" /\ pc' = "clip") =>
          /\ current_rms' = CurrentRms(vib_full)
          /\ Len(vib_full') = Len(vib_full)
          /\ IF current_rms'.nan \/ current_rms'.val <= 1
             THEN vib_full' = vib_full
             ELSE \A i \in 1..Len(vib_full) :
                     TimesFactor(vib_full[i], vib_full'[i], current_rms'.val)]_vars

\* the buffer was scaled, by a factor other than 1, to an RMS of 0.15
C17_Witness ==
    /\ probe.kind = "pipeline" /\ pc = "clip"
    /\ current_rms.val > 1 /\ Abs(current_rms.val - 1000 * target_rms) > 10000
    /\ Abs(CurrentRms(vib_full).val - 1000 * target_rms) <= 1000

\* C19: the frames partition the input.  Each extracted frame starts where
\* the frame before it ended (the first at 0), takes at least one sample,
\* and the last one ends at n, so every index i < n lies in exactly one
\* frame, the one that starts at 4096 * floor(i / 4096).  A frame handed to
\* the analysis has exactly 4096 samples; it has padding only if no frame
\* follows it, and the padding is zero.
C19_Partition ==
    [][probe.kind = "pipeline" =>
          /\ (pc = "loop" /\ pc' # "clip") =>
                /\ pc' = "analyze"
                /\ block'.lo = block.lo + block.taken
                /\ block'.taken >= 1
                /\ \A i \in block'.lo .. (block'.lo + block'.taken - 1) :
                      i < audio.len /\ block'.lo = FRAME_S * (i \div FRAME_S)
                /\ block'.taken + block'.pad = FRAME_S
                /\ block'.pad > 0 => /\ block'.lo + block'.taken = audio.len
                                     /\ block'.fill = 0
          /\ (pc = "loop" /\ pc' = "clip") => block.lo + block.taken = audio.len
          /\ pc # "loop" => block' = block]_vars

\* the second frame of an input is its last, a partial one, padded
C19_Witness ==
    /\ probe.kind = "pipeline" /\ pc = "analyze"
    /\ block.lo = FRAME_S /\ block.taken = TailSamples
    /\ block.pad = FRAME_S - TailSamples /\ block.fill = 0
    /\ audio.len = FRAME_S + TailSamples

\* the number of samples lines 211-214 add for a frame placed at out_start
Written(out_start, out_end, total) ==
    IF out_end > total THEN total - out_start ELSE out_end - out_start

\* C20: the placement of a frame never raises and never writes outside the
\* buffer: out_start is at most the length of the buffer; a segment whose
\* out_end exceeds that length contributes its first (length - out_start)
\* samples, a count that is never negative, and any other segment
\* contributes all of its round(4096 * 8000 / 44100) samples; the samples
\* are added from out_start on and every other sample of the buffer, and
\* its length, stay as they were.
C20_PlacementInBounds ==
    [][(probe.kind = "pipeline" /\ pc = "place") =>
          /\ pc' = "loop"
          /\ Len(vib_seg) = Round(FRAME_S * VIB_SR, AUDIO_SR)
          /\ out'.out_end = out'.out_start + Len(vib_seg)
          /\ out'.out_start <= n_out_total
          /\ Len(vib_full') = n_out_total
          /\ LET first == out'.out_start
                 count == Written(out'.out_start, out'.out_end, n_out_total)
             IN  /\ count >= 0
                 /\ first + count <= n_out_total
                 /\ \A k \in 1..n_out_total :
                       vib_full'[k] = vib_full[k] +
                           (IF first < k /\ k <= first + count
                            THEN vib_seg[k - first] ELSE 0)]_vars

\* the last frame of a two-frame input was truncated to fewer samples than
\* the segment has, and they were added where the buffer ends
C20_Witness ==
    /\ probe.kind = "pipeline" /\ pc = "loop"
    /\ start = 2 * FRAME_S /\ audio.len = FRAME_S + TailSamples
    /\ out.out_end > n_out_total
    /\ n_out_total - out.out_start \in 1..(out.n_out - 1)
    /\ vib_full[n_out_total] # 0
    /\ vib_full[n_out_total] = vib_seg[n_out_total - out.out_start]

\* a frame was placed at the very end of the buffer: none of its samples
\* was added
PlacedAtTheEnd ==
    /\ probe.kind = "pipeline" /\ pc = "loop" /\ start > 0
    /\ out.out_start = n_out_total

----------------------------------------------------------------------------
(* The function harness: perceptual_targets and amplitudes_from_percepts   *)
(* called on arguments drawn from bounded grids.                           *)

MaxLaSteps == 8
MaxRaSteps == 6
MaxIvSteps == 6
MaxRvSteps == 24
MaxSSteps == 20

LaGrid == {i * 10 * PU : i \in 0..MaxLaSteps}
RaGrid == {i * PU : i \in 0..MaxRaSteps}
IvGrid == {(i * PU) \div 2 : i \in -1..MaxIvSteps} \cup {1}
RvGrid == {(i * PU) \div 2 : i \in -1..MaxRvSteps}
SGrid  == {(i * SU) \div MaxSSteps : i \in 0..MaxSSteps}

\* Rv for which S is a root of the quadratic of the inversion:
\* (56.3*S - 28.3)^2 = 801 - 113*(Rv - 0.529*Iv - 0.479)
RvFromS(S, iv) ==
    LET d == ((S - 28300) * (S - 28300)) \div 1000
    IN  MulDiv(529, iv, 1000) + 54127 + 801000 - d

InitMap ==
    /\ amp = EarlyReturn
    /\ audio = [len |-> 0, kinds |-> <<>>]
    /\ n_out_total = 0 /\ vib_full = <<>> /\ start = 0
    /\ block = NoBlock /\ vib_seg = <<>> /\ out = NoOut
    /\ current_rms = NoRms /\ out_wav = NotWritten /\ cli = NoCli /\ workers = <<>> /\ call = NoCall
    /\ \/ /\ pc = "targets_args"
          /\ probe = [kind |-> "targets", S |-> 0]
          /\ content \in Contents
          /\ La \in LaGrid
          /\ Ra \in RaGrid
          /\ Iv = 0 /\ Rv = 0
       \/ /\ pc = "amplitudes_args"
          /\ probe = [kind |-> "amplitudes", S |-> 0]
          /\ content = "game" /\ La = 0 /\ Ra = 0
          /\ Iv \in IvGrid
          /\ Rv \in RvGrid
       \/ /\ pc = "amplitudes_args"
          /\ content = "game" /\ La = 0 /\ Ra = 0
          /\ Iv \in {iv \in IvGrid : iv > 0}
          /\ \E S \in SGrid :
                /\ probe = [kind |-> "roundtrip", S |-> S]
                /\ Rv = RvFromS(S, Iv)

CallTargets ==
    /\ pc = "targets_args"
    /\ LET t == perceptual_targets(La, Ra, content)
       IN  /\ Iv' = t.Iv /\ Rv' = t.Rv
           /\ pc' = IF t.raised THEN "raised" ELSE "amplitudes_args"
    /\ UNCHANGED <<call, workers, cli, probe, content, La, Ra, amp, pipe>>

CallAmplitudes ==
    /\ pc = "amplitudes_args"
    /\ \E a \in {amplitudes_from_percepts(Iv, Rv)} : \E e \in Residues :
          amp' = Rounded(a, e)
    /\ pc' = IF amp'.raised THEN "raised" ELSE "returned"
    /\ UNCHANGED <<call, workers, cli, probe, content, La, Ra, Iv, Rv, pipe>>

NextMap == CallTargets \/ CallAmplitudes

SpecMap == InitMap /\ [][NextMap]_vars

----------------------------------------------------------------------------
(* Properties of the mapping and of the inversion (under SpecMap) *)

InRange(r) == 0 <= r /\ r <= SU

AfterTargets == probe.kind = "targets" /\ pc \in {"amplitudes_args", "returned"}

Unclamped == IF content = "music" THEN IvMusic(La) ELSE IvGame(La, Ra)

\* C6: for every loudness >= 0, roughness >= 0 and content type the intensity
\* returned by perceptual_targets is >= 0, and it is exactly 0 whenever the
\* unclamped formula of the content type's branch is negative.
C6_IvNonNegative ==
    AfterTargets => /\ Iv >= 0
                    /\ (Unclamped < 0 => Iv = 0)
                    /\ (Unclamped >= 0 => Iv = Unclamped)

C6_Witness ==
    /\ AfterTargets
    /\ Unclamped < 0
    /\ Iv = 0
    /\ La > 0 /\ Ra > 0

\* C7: amplitudes_from_percepts returns exactly (0, 0) whenever Iv <= 0, for
\* every Rv, at line 124: none of the discriminant, the roots or the total
\* amplitude is evaluated.
C7_SilentWhenNoIntensity ==
    (pc = "returned" /\ Iv <= 0) =>
        /\ amp.a1 = 0 /\ amp.a2 = 0
        /\ amp.early

C7_Witness ==
    /\ pc = "returned"
    /\ Iv = 0
    /\ Rv > 0
    /\ amp.a1 = 0 /\ amp.a2 = 0

\* r1 and r2 are (28.3 + sqrt(D))/56.3 and (28.3 - sqrt(D))/56.3
RootsOfDisc ==
    LET q == amp.r1 - 28300
    IN  /\ q >= 0
        /\ amp.r2 = 28300 - q
        /\ q * q <= amp.disc * 1000
        /\ (q + 1) * (q + 1) > amp.disc * 1000

\* S is the smaller of the roots that lie in [0, 1], and the constant when
\* neither does
SmallerRootInRange ==
    /\ (InRange(amp.r1) /\ InRange(amp.r2) => amp.S = Min(amp.r1, amp.r2))
    /\ (InRange(amp.r1) /\ ~InRange(amp.r2) => amp.S = amp.r1)
    /\ (~InRange(amp.r1) /\ InRange(amp.r2) => amp.S = amp.r2)
    /\ (~InRange(amp.r1) /\ ~InRange(amp.r2) => amp.S = FallbackS)

Inverted == pc = "returned" /\ Iv > 0

\* C8 as claimed: S is the smaller root in [0, 1] when there is one, and S is
\* the constant 28.3/56.3 exactly when (if and only if) neither root is in
\* [0, 1].
C8_Original ==
    Inverted =>
        /\ RootsOfDisc
        /\ SmallerRootInRange
        /\ (amp.S = FallbackS => ~InRange(amp.r1) /\ ~InRange(amp.r2))

\* C8 as amended: S is the smaller root in [0, 1] when there is one and the
\* constant 28.3/56.3 when neither root is in [0, 1]; S equals that constant
\* in one more case only, D = 0, where both roots are 28.3/56.3.
C8_MixRatio ==
    Inverted =>
        /\ RootsOfDisc
        /\ SmallerRootInRange
        /\ (amp.S = FallbackS /\ (InRange(amp.r1) \/ InRange(amp.r2))
               => amp.disc = 0 /\ amp.r1 = FallbackS /\ amp.r2 = FallbackS)

C8_Witness ==
    /\ Inverted
    /\ InRange(amp.r1) /\ InRange(amp.r2)
    /\ amp.r2 < amp.r1
    /\ amp.S = amp.r2

C8_WitnessFallback ==
    /\ Inverted
    /\ ~InRange(amp.r1) /\ ~InRange(amp.r2)
    /\ amp.S = FallbackS

\* (Iv, Rv) is outside the achievable region
Unachievable ==
    \/ Rv > RvMax(Iv)
    \/ ~InRange(amp.r1) /\ ~InRange(amp.r2)

\* C9: for every Iv > 0 and Rv outside the achievable region the call returns
\* (it does not raise) the pair of the fallback ratio: a2 = A*S, a1 = A - a2
\* with S = 28.3/56.3.
C9_Fallback ==
    (probe.kind # "pipeline" /\ pc \in {"returned", "raised"} /\ Iv > 0 /\ Unachievable) =>
        /\ pc = "returned"
        /\ amp.S = FallbackS
        /\ amp.a2 = MulDiv(amp.A, FallbackS, SU)
        /\ amp.a1 = amp.A - amp.a2
        /\ amp.a1 >= 0 /\ amp.a2 >= 0

C9_Witness ==
    /\ Inverted
    /\ Rv < RvMax(Iv)
    /\ ~InRange(amp.r1) /\ ~InRange(amp.r2)
    /\ amp.S = FallbackS
    /\ amp.a2 > 0

C9_WitnessAbove ==
    /\ Inverted
    /\ Rv > RvMax(Iv)
    /\ amp.S = FallbackS
    /\ amp.a2 > 0

\* a2/(a1 + a2) = S within tolerance: 2 units of S (the resolution of the
\* square root) and one unit of amplitude
RatioIs(S) ==
    LET A == amp.a1 + amp.a2
    IN  Abs(amp.a2 - MulDiv(A, S, SU)) <= MulDiv(A, 2, SU) + 1

RoundTrip == probe.kind = "roundtrip" /\ pc = "returned"

\* C10 as claimed: for every S in [0, 1] and Iv > 0, with Rv built so that S
\* is a root of the quadratic, the returned pair has a2/(a1 + a2) = S whenever
\* a1 + a2 > 0.
C10_Original ==
    (RoundTrip /\ amp.a1 + amp.a2 > 0) => RatioIs(probe.S)

\* C10 as amended: the same for every S in [0, 28.3/56.3]; for a larger S the
\* pair has the ratio of the other root, 2*28.3/56.3 - S.
C10_RoundTrip ==
    (RoundTrip /\ amp.a1 + amp.a2 > 0) =>
        /\ (probe.S <= FallbackS => RatioIs(probe.S))
        /\ (probe.S > FallbackS => RatioIs(2 * FallbackS - probe.S))

C10_Witness ==
    /\ RoundTrip
    /\ amp.a1 + amp.a2 > 1000
    /\ probe.S > 0 /\ probe.S < FallbackS
    /\ RatioIs(probe.S)

\* C11: for every Iv and Rv the returned pair has a1 >= 0 and a2 >= 0; when
\* the call gets past line 124, a2 = A*S and a1 + a2 = A, where A is a square
\* (so A >= 0) and S is in [0, 1].
C11_NonNegativePair ==
    (probe.kind # "pipeline" /\ pc = "returned") =>
        /\ amp.a1 >= 0 /\ amp.a2 >= 0
        /\ ~amp.early =>
              /\ InRange(amp.S)
              /\ amp.A >= 0
              /\ Isqrt(amp.A) * Isqrt(amp.A) = amp.A
              /\ amp.a2 = MulDiv(amp.A, amp.S, SU)
              /\ amp.a1 + amp.a2 = amp.A

\* a call whose unsquared amplitude is negative
C11_Witness ==
    /\ probe.kind = "amplitudes"
    /\ pc = "returned"
    /\ ~amp.early
    /\ AmplitudeRoot(amp.S, amp.Rv_adj) < 0
    /\ amp.a1 > 0 /\ amp.a2 > 0
    /\ amp.a1 + amp.a2 = amp.A


----------------------------------------------------------------------------
(* The command line, lines 232-264 *)

\* lines 232-251: the arguments are parsed and echoed
ParseArgs ==
    /\ pc = "main"
    /\ pc' = "makedirs"
    /\ UNCHANGED <<call, workers, cli, probe, content, La, Ra, Iv, Rv, amp, pipe>>

\* os.makedirs(output_dir, exist_ok=True) under "if output_dir"
MadeDirs(dir) == IF dir = "absent" THEN "created" ELSE dir

\* lines 254-256, then the call of process_file at line 258
MakeDirs ==
    /\ pc = "makedirs"
    /\ cli' = [cli EXCEPT !.output_dir = MadeDirs(cli.output_dir)]
    /\ pc' = "Start"
    /\ UNCHANGED <<call, workers, probe, content, La, Ra, Iv, Rv, amp, pipe>>

\* line 264, and the end of the script
ExitOk ==
    /\ pc = "Done"
    /\ cli' = [cli EXCEPT !.exited = TRUE, !.exit_code = 0]
    /\ pc' = "exit"
    /\ UNCHANGED <<call, workers, probe, content, La, Ra, Iv, Rv, amp, pipe>>

\* no statement of lines 232-264 catches an exception: the interpreter
\* prints the traceback and exits with status 1
ExitError ==
    /\ pc = "raised"
    /\ cli' = [cli EXCEPT !.exited = TRUE, !.exit_code = 1]
    /\ pc' = "exit"
    /\ UNCHANGED <<call, workers, probe, content, La, Ra, Iv, Rv, amp, pipe>>

NextMain ==
    \/ ParseArgs
    \/ MakeDirs
    \/ Next
    \/ ExitOk
    \/ ExitError

\* the input file of the command line
InputFiles == {"ok", "missing", "unreadable"}

\* the directory part of --output_file: none, not there yet, or there
OutputDirs == {"none", "absent", "present"}

MainLengths == {1, TailSamples, FRAME_S, FRAME_S + 1}

InitMain ==
    /\ pc = "main"
    /\ probe = [kind |-> "main", S |-> 0]
    /\ content \in Contents
    /\ \E f \in InputFiles : \E d \in OutputDirs :
          /\ cli = [input_file |-> f, output_dir |-> d, exited |-> FALSE, exit_code |-> 0]
          /\ IF f = "ok"
             THEN \E n \in MainLengths : \E ks \in KindSeqs(NumFrames(n)) :
                     audio = [len |-> n, kinds |-> ks]
             ELSE audio = [len |-> 0, kinds |-> <<>>]
    /\ La = 0 /\ Ra = 0 /\ Iv = 0 /\ Rv = 0
    /\ amp = EarlyReturn
    /\ n_out_total = 0 /\ vib_full = <<>> /\ start = 0
    /\ block = NoBlock /\ vib_seg = <<>> /\ out = NoOut
    /\ current_rms = NoRms /\ out_wav = NotWritten /\ workers = <<>> /\ call = NoCall

SpecMain == InitMain /\ [][NextMain]_vars

----------------------------------------------------------------------------
(* Properties of the command line (under SpecMain) *)

\* C15 as claimed: a run of the command line on a missing or unreadable
\* input file ends with a non-zero exit code, with no output file written
\* and no output directory created; a run on a readable input ends with exit
\* code 0 and the output written.
C15_CleanFailure ==
    cli.exited =>
        IF cli.input_file = "ok"
        THEN cli.exit_code = 0 /\ out_wav.written
        ELSE /\ cli.exit_code # 0
             /\ ~out_wav.written
             /\ cli.output_dir # "created"

----------------------------------------------------------------------------
(* One worker per frame, each running lines 209-214 for its frame on the    *)
(* shared buffer.  The += of line 212 or 214 is a read of the slice and a   *)
(* later write of the sums: two steps, between which other workers run.     *)

\* the segment lines 200-206 give frame i
SegmentOfFrame(i) ==
    IF content = "music" THEN Segments[audio.kinds[i]].music
                         ELSE Segments[audio.kinds[i]].other

\* line 209 for frame i
OutStartOfFrame(i) == OutStart((i - 1) * HOP_S)

\* the indices (from 1) of the buffer that lines 211-214 write for frame i
RangeOfFrame(i) ==
    (OutStartOfFrame(i) + 1)
        .. Min(OutStartOfFrame(i) + Round(FRAME_S * VIB_SR, AUDIO_SR), n_out_total)

\* the frames are handed out, one worker each
Fork ==
    /\ pc = "loop"
    /\ probe.kind = "workers"
    /\ workers' = [i \in 1..NumFrames(audio.len) |-> [at |-> "idle", lhs |-> <<>>]]
    /\ pc' = "workers"
    /\ UNCHANGED <<call, cli, probe, content, La, Ra, Iv, Rv, amp, pipe>>

\* the worker of frame i reads its slice of the buffer
WorkerRead(i) ==
    /\ pc = "workers"
    /\ workers[i].at = "idle"
    /\ LET out_start == OutStartOfFrame(i)
       IN  workers' = [workers EXCEPT ![i] =
               [at |-> "read",
                lhs |-> SubSeq(vib_full, out_start + 1,
                               out_start + Cardinality(RangeOfFrame(i)))]]
    /\ UNCHANGED <<call, cli, pc, probe, content, La, Ra, Iv, Rv, amp, pipe>>

\* the worker of frame i writes the sums of what it read and its segment
WorkerAdd(i) ==
    /\ pc = "workers"
    /\ workers[i].at = "read"
    /\ vib_full' =
          Bind(workers[i].lhs, LAMBDA lhs :
          Bind(SubSeq(SegmentOfFrame(i), 1, Len(lhs)), LAMBDA rhs :
              SubSeq(vib_full, 1, Min(OutStartOfFrame(i), Len(vib_full)))
                  \o AddInto(lhs, rhs)
                  \o SliceFrom(vib_full, OutStartOfFrame(i) + Len(lhs))))
    /\ workers' = [workers EXCEPT ![i] = [at |-> "done", lhs |-> <<>>]]
    /\ UNCHANGED <<call, cli, pc, probe, content, La, Ra, Iv, Rv, amp, audio, n_out_total,
                   start, block, vib_seg, out, current_rms, out_wav>>

\* every worker is done
Join ==
    /\ pc = "workers"
    /\ \A i \in DOMAIN workers : workers[i].at = "done"
    /\ pc' = "joined"
    /\ UNCHANGED <<call, workers, cli, probe, content, La, Ra, Iv, Rv, amp, pipe>>

NextWorkers ==
    \/ Begin
    \/ Fork
    \/ \E i \in DOMAIN workers : WorkerRead(i)
    \/ \E i \in DOMAIN workers : WorkerAdd(i)
    \/ Join

\* inputs of up to MaxFrames + 1 frames
InitWorkers ==
    /\ pc = "Start"
    /\ probe = [kind |-> "workers", S |-> 0]
    /\ content \in Contents
    /\ \E n \in {l \in Lengths : NumFrames(l) <= MaxFrames + 1} :
          \E ks \in KindSeqs(NumFrames(n)) : audio = [len |-> n, kinds |-> ks]
    /\ La = 0 /\ Ra = 0 /\ Iv = 0 /\ Rv = 0
    /\ amp = EarlyReturn
    /\ n_out_total = 0 /\ vib_full = <<>> /\ start = 0
    /\ block = NoBlock /\ vib_seg = <<>> /\ out = NoOut
    /\ current_rms = NoRms /\ out_wav = NotWritten /\ cli = NoCli /\ workers = <<>> /\ call = NoCall

SpecWorkers == InitWorkers /\ [][NextWorkers]_vars

----------------------------------------------------------------------------
(* Properties of the workers (under SpecWorkers) *)

\* C18: with hop = frame size the output ranges of distinct frames are
\* pairwise disjoint and given by the frame index alone (and the length of
\* the buffer): a worker changes the buffer inside the range of its frame
\* only, and whatever the order in which the workers read and wrote, the
\* buffer they leave is the one the sequential loop leaves before the
\* normalization.
C18_Interleavings ==
    [][pc = "workers" =>
          /\ \A i, j \in DOMAIN workers :
                i # j => RangeOfFrame(i) \cap RangeOfFrame(j) = {}
          /\ \A i \in DOMAIN workers :
                workers'[i] # workers[i] =>
                    \A k \in 1..Len(vib_full) :
                        vib_full'[k] # vib_full[k] => k \in RangeOfFrame(i)
          /\ pc' = "joined" =>
                vib_full = PlacedUpTo(audio, content, NumFrames(audio.len))]_vars

\* the workers of MaxFrames + 1 frames are done and the first two of them
\* have left samples that are not zero
C18_Witness ==
    /\ pc = "joined"
    /\ Len(workers) = MaxFrames + 1
    /\ ~AllZero(vib_full)
    /\ \A i \in DOMAIN workers : workers[i].at = "done"
    /\ vib_full[1 + 1] # 0 /\ vib_full[OutStartOfFrame(2) + 2] # 0

----------------------------------------------------------------------------
(* Properties of the placement and of the frames (under Spec) *)

\* the indices (from 1) of a buffer of total samples that no one of the
\* first m frames writes to
UncoveredIn(total, m) == (1..total) \ UNION {RangeOfFrame(i) : i \in 1..m}

Uncovered(m) == UncoveredIn(n_out_total, m)

\* C21: placing the segment of a frame changes no entry of the buffer
\* outside the range [out_start, min(out_end, buffer length)) of that frame,
\* and inside it adds the segment; so, each time the loop is back at its
\* head, and when it is left for the normalization, every index that is in
\* the range of no frame placed so far, the tail beyond the last written
\* sample included, still holds 0.
C21_UntouchedStaysZero ==
    [][probe.kind = "pipeline" =>
          /\ pc = "place" =>
                LET frame == start \div FRAME_S + 1
                    first == OutStartOfFrame(frame)
                    count == Cardinality(RangeOfFrame(frame))
                IN  /\ SubSeq(vib_full', 1, first) = SubSeq(vib_full, 1, first)
                    /\ SliceFrom(vib_full', first + count)
                          = SliceFrom(vib_full, first + count)
                    /\ \A k \in 1..count :
                          vib_full'[first + k] = vib_full[first + k] + vib_seg[k]
          /\ pc' = "loop" =>
                \A k \in UncoveredIn(n_out_total', start' \div FRAME_S) : vib_full'[k] = 0
          /\ (pc = "loop" /\ pc' = "clip") =>
                \A k \in Uncovered(NumFrames(audio.len)) : vib_full[k] = 0]_vars

\* the one frame of an input of 4096 samples was placed on 743 of the 744
\* samples of the buffer: the last one is in no range and holds 0
C21_Witness ==
    /\ probe.kind = "pipeline" /\ pc = "loop"
    /\ audio.len = FRAME_S /\ start = FRAME_S
    /\ Uncovered(1) = {n_out_total}
    /\ vib_full[n_out_total] = 0
    /\ ~AllZero(vib_full)

----------------------------------------------------------------------------
(* More properties of the inversion (under SpecMap) *)

\* amplitudes_from_percepts was called with Iv > 0 and has returned or raised
Solved == probe.kind # "pipeline" /\ pc \in {"returned", "raised"} /\ Iv > 0

\* disc is 0.0
DiscIsZero == amp.disc = 0 /\ amp.disc_eps = 0

----------------------------------------------------------------------------
(* Functions called on their own, on arguments drawn from bounded sets *)

MaxIsoSteps == 280

\* frequencies in tenths of a Hz: a grid of 25 Hz steps from 0 up, the
\* control points and their neighbours, and the frequencies of the bins
IsoArgs ==
    {250 * i : i \in 0..MaxIsoSteps}
        \cup {ISO_FREQ[i] + d : i \in 1..Len(ISO_FREQ), d \in {-1, 0, 1}}
        \cup {Freq(k) : k \in 0..(FRAME_S \div 2)}

CallIso ==
    /\ pc = "call_args"
    /\ call.fn = "iso60phon"
    /\ call' = [call EXCEPT !.out = iso60phon(call.arg)]
    /\ pc' = "call_returned"
    /\ UNCHANGED <<workers, cli, probe, content, La, Ra, Iv, Rv, amp, pipe>>

MaxPeaks == 6

\* the double loop of lines 95-96 over n peaks
CallPairs ==
    /\ pc = "call_args"
    /\ call.fn = "pairs"
    /\ call' = [call EXCEPT !.out = LoopOrder(call.arg)]
    /\ pc' = "call_returned"
    /\ UNCHANGED <<workers, cli, probe, content, La, Ra, Iv, Rv, amp, pipe>>

\* auditory_roughness on a frame: its result R and the peaks of line 87
CallRoughness ==
    /\ pc = "call_args"
    /\ call.fn = "auditory_roughness"
    /\ call' = [call EXCEPT !.out = [peaks |-> PeaksOf(call.arg),
                                     R |-> auditory_roughness(call.arg)]]
    /\ pc' = "call_returned"
    /\ UNCHANGED <<workers, cli, probe, content, La, Ra, Iv, Rv, amp, pipe>>

NextCalls == CallIso \/ CallPairs \/ CallRoughness

InitCalls ==
    /\ pc = "call_args"
    /\ probe = [kind |-> "call", S |-> 0]
    /\ \/ \E f \in IsoArgs : call = [fn |-> "iso60phon", arg |-> f, out |-> 0]
       \/ \E n \in 0..MaxPeaks : call = [fn |-> "pairs", arg |-> n, out |-> 0]
       \/ \E k \in FrameKinds : call = [fn |-> "auditory_roughness", arg |-> k, out |-> 0]
    /\ content = "game"
    /\ La = 0 /\ Ra = 0 /\ Iv = 0 /\ Rv = 0
    /\ amp = EarlyReturn
    /\ audio = [len |-> 0, kinds |-> <<>>]
    /\ n_out_total = 0 /\ vib_full = <<>> /\ start = 0
    /\ block = NoBlock /\ vib_seg = <<>> /\ out = NoOut
    /\ current_rms = NoRms /\ out_wav = NotWritten /\ cli = NoCli
    /\ workers = <<>>

SpecCalls == InitCalls /\ [][NextCalls]_vars

----------------------------------------------------------------------------
(* Properties of the functions called on their own (under SpecCalls) *)

Returned(fn) == pc = "call_returned" /\ call.fn = fn

\* y is on the straight line from (x0, y0) to (x1, y1) at x, to one unit
OnLine(x, y, x0, y0, x1, y1) ==
    /\ Min(y0, y1) <= y /\ y <= Max(y0, y1)
    /\ Abs((y - y0) * (x1 - x0) - (y1 - y0) * (x - x0)) < x1 - x0

\* C23: iso60phon interpolates the table of 25 points linearly: it returns
\* the table value at every control frequency, a value on the straight line
\* between the two neighbouring control points for a frequency between
\* them, the first table value (104.23) below 25 Hz and the last (66.36)
\* above 6300 Hz; its value is always positive.
C23_Contour ==
    Returned("iso60phon") =>
        LET f == call.arg
            y == call.out
            last == Len(ISO_FREQ)
        IN  /\ Len(ISO_FREQ) = 25 /\ Len(ISO_SPL60) = 25
            /\ \A i \in 1..(last - 1) : ISO_FREQ[i] < ISO_FREQ[i + 1]
            /\ f < 250 => y = 10423
            /\ f > 63000 => y = 6636
            /\ \A i \in 1..last : f = ISO_FREQ[i] => y = ISO_SPL60[i]
            /\ \A i \in 1..(last - 1) :
                  (ISO_FREQ[i] < f /\ f < ISO_FREQ[i + 1]) =>
                      OnLine(f, y, ISO_FREQ[i], ISO_SPL60[i],
                             ISO_FREQ[i + 1], ISO_SPL60[i + 1])
            /\ y > 0

\* a frequency strictly between 1000 Hz and 1250 Hz, where the contour
\* rises: the value is strictly between the two table values
C23_Witness ==
    /\ Returned("iso60phon")
    /\ 10000 < call.arg /\ call.arg < 12500
    /\ 6001 < call.out /\ call.out < 6215

\* the sum of the contributions of the pairs of a sequence of visits
RECURSIVE SumVisits(_, _, _, _)
SumVisits(kind, pk, visits, i) ==
    IF i > Len(visits) THEN 0
    ELSE PairTerm(Freq(pk[visits[i][1]]), Mag(kind, pk[visits[i][1]]),
                  Freq(pk[visits[i][2]]), Mag(kind, pk[visits[i][2]]))
         + SumVisits(kind, pk, visits, i + 1)

\* the visits are exactly the unordered pairs of distinct indices in 1..n,
\* each once
EachPairOnce(visits, n) ==
    /\ 2 * Len(visits) = n * (n - 1)
    /\ \A k \in 1..Len(visits) :
          /\ visits[k][1] \in 1..n /\ visits[k][2] \in 1..n
          /\ visits[k][1] # visits[k][2]
    /\ \A k, l \in 1..Len(visits) :
          k # l => {visits[k][1], visits[k][2]} # {visits[l][1], visits[l][2]}
    /\ \A a, b \in 1..n :
          a # b => \E k \in 1..Len(visits) : {visits[k][1], visits[k][2]} = {a, b}

\* C24: auditory_roughness returns 0 for a frame with fewer than two
\* detected peaks; for p >= 2 peaks the double loop visits each of the
\* p*(p-1)/2 unordered pairs of distinct peaks exactly once, never a peak
\* with itself, and the result is the sum of one contribution per visit.
C24_PairSum ==
    /\ Returned("pairs") => EachPairOnce(call.out, call.arg)
    /\ Returned("auditory_roughness") =>
          LET p == Len(call.out.peaks)
          IN  /\ p < 2 => call.out.R = 0
              /\ \A i, j \in 1..p : i < j => call.out.peaks[i] < call.out.peaks[j]
              /\ EachPairOnce(LoopOrder(p), p)
              /\ call.out.R = 113 * SumVisits(call.arg, call.out.peaks, LoopOrder(p), 1)

\* a frame with ten peaks: 45 pairs and a roughness above 0
C24_Witness ==
    /\ Returned("auditory_roughness")
    /\ Len(call.out.peaks) = 10
    /\ Len(LoopOrder(10)) = 45
    /\ call.out.R > 0

----------------------------------------------------------------------------
(* More properties of the mapping (under SpecMap) *)

\* C25: the roughness target is Rv = CV*R with CV = 1 for every content
\* type: for the same (L, R) perceptual_targets returns the same Rv for music
\* as for game and movie, so the content type can change only Iv.
C25_RvIgnoresContent ==
    AfterTargets =>
        /\ CV = 1
        /\ Rv = CV * Ra
        /\ Rv = Ra
        /\ \A tag \in Contents :
              /\ ~perceptual_targets(La, Ra, tag).raised
              /\ perceptual_targets(La, Ra, tag).Rv = Rv

\* a music call with a roughness above 0 whose intensity differs from the
\* one a game call returns on the same (L, R)
C25_Witness ==
    /\ AfterTargets
    /\ content = "music"
    /\ Ra > 0 /\ Rv = Ra
    /\ perceptual_targets(La, Ra, "game").Iv # Iv
    /\ perceptual_targets(La, Ra, "game").Rv = Rv

----------------------------------------------------------------------------
(* Properties of the frame loop (under Spec) *)

\* lines 199-200 on a frame of every kind under either branch of the content
\* tag, computed once
AmplitudesOfKind(kind, cont) ==
    Bind(TargetsOf(kind, cont), LAMBDA t : amplitudes_from_percepts(t.Iv, t.Rv))
Amplitudes == [k \in FrameKinds |-> [music |-> AmplitudesOfKind(k, "music"),
                                     other |-> AmplitudesOfKind(k, "game")]]

BranchOf(tab) == IF content = "music" THEN tab.music ELSE tab.other

\* C26: no state is carried across frames: once a frame is synthesized, its
\* loudness, roughness, targets, amplitude pair and segment are those of the
\* frame's own samples and of the content tag, whatever the frame's index and
\* whatever the earlier frames were; the segment starts at time 0, so its
\* first sample is 0.
C26_FramesIndependent ==
    pc = "place" =>
        /\ La = BranchOf(Analysis[block.kind])
        /\ Ra = Analysis[block.kind].rough
        /\ Iv = TargetsOf(block.kind, content).Iv
        /\ Rv = TargetsOf(block.kind, content).Rv
        /\ amp.a1 = BranchOf(Amplitudes[block.kind]).a1
        /\ amp.a2 = BranchOf(Amplitudes[block.kind]).a2
        /\ vib_seg = BranchOf(Segments[block.kind])
        /\ Len(vib_seg) = Round(FRAME_S * VIB_SR, AUDIO_SR)
        /\ vib_seg[1] = 0

\* the second frame, sounding, after a first frame of another kind
C26_Witness ==
    /\ pc = "place"
    /\ start = FRAME_S
    /\ audio.kinds[1] # audio.kinds[2]
    /\ block.kind = audio.kinds[2]
    /\ amp.a1 > 0 /\ amp.a2 > 0
    /\ vib_seg = Segments[block.kind].other
    /\ \E i \in 1..Len(vib_seg) : vib_seg[i] # 0

----------------------------------------------------------------------------
(* Properties of the mix ratio (under SpecMap) *)

\* C27: for every Iv > 0 and every Rv the mix ratio S lies in
\* [0, 28.3/56.3]; r1 is never below 28.3/56.3 and r2 never above it; S is
\* r1 only when r1 = r2, which is when D = 0; and whenever r2 < 0, r1 > 1, so
\* that the list of valid roots is then empty and S is 28.3/56.3.
C27_MixRatioRange ==
    Inverted =>
        /\ 0 <= amp.S /\ amp.S <= FallbackS
        /\ amp.r2 <= FallbackS /\ FallbackS <= amp.r1
        /\ (amp.S = amp.r1 => amp.r1 = amp.r2 /\ amp.disc = 0)
        /\ (amp.r2 < 0 => amp.r1 > SU /\ amp.valid = <<>> /\ amp.S = FallbackS)
        /\ (amp.valid # <<>> => amp.S = amp.r2)

\* a call whose r2 is below 0: r1 is above 1 and S is 28.3/56.3
C27_Witness ==
    /\ Inverted
    /\ amp.r2 < 0
    /\ amp.r1 > SU
    /\ amp.S = FallbackS

\* a call whose r1 is above 1 while r2 is in [0, 1]
C27_OnlySmallerRoot ==
    /\ Inverted
    /\ amp.r1 > SU /\ InRange(amp.r2)
    /\ amp.S = amp.r2 /\ amp.S < FallbackS

----------------------------------------------------------------------------
(* process_file called with every overlap and every content tag *)

\* the overlap argument, in thousandths: line 261 of Percept.py passes 0.5 and
\* line 214 of backend/app.py passes 0.0
Overlaps == {0, 500}

\* --content_type is type=str without choices (lines 244-247): the three
\* documented tags and some that are not
Tags == Contents \cup {"Music", "", "podcast"}

InitArgs ==
    /\ pc = "Start"
    /\ probe = NoProbe
    /\ content \in Tags
    /\ \E ov \in Overlaps : call = [fn |-> "process_file", arg |-> ov, out |-> 0]
    /\ \E n \in MainLengths : \E ks \in KindSeqs(NumFrames(n)) :
          audio = [len |-> n, kinds |-> ks]
    /\ La = 0 /\ Ra = 0 /\ Iv = 0 /\ Rv = 0
    /\ amp = EarlyReturn
    /\ n_out_total = 0 /\ vib_full = <<>> /\ start = 0
    /\ block = NoBlock /\ vib_seg = <<>> /\ out = NoOut
    /\ current_rms = NoRms /\ out_wav = NotWritten /\ cli = NoCli /\ workers = <<>>

SpecArgs == InitArgs /\ [][Next]_vars

----------------------------------------------------------------------------
(* Properties of the arguments of process_file (under SpecArgs) *)

\* C28: the overlap argument has no effect: whatever its value, the loop
\* advances by a hop of 4096 samples, the frames are audio[start:start+4096]
\* at the multiples of 4096, frame i is placed at round(4096*i*8000/44100)
\* with the length round(4096*8000/44100), and the output written is the one
\* that the input and the content type alone determine.
C28_OverlapIgnored ==
    [][call.fn = "process_file" =>
        /\ HOP_S = FRAME_S
        /\ (pc = "loop" /\ pc' = "analyze") =>
              /\ start % FRAME_S = 0
              /\ block' = Frame(audio, start)
              /\ block'.lo = start
              /\ block'.kind = audio.kinds[start \div FRAME_S + 1]
        /\ (pc = "place" /\ pc' = "loop") =>
              /\ start' = start + FRAME_S
              /\ out'.out_start = Round(start * VIB_SR, AUDIO_SR)
              /\ out'.out_end = out'.out_start + Round(FRAME_S * VIB_SR, AUDIO_SR)
        /\ (pc = "write" /\ pc' = "Done") =>
              out_wav'.data = process_file(audio, content)]_vars

\* a run with overlap 0.5 on two frames, finished with a sounding output
\* whose second frame was placed at round(4096*8000/44100)
C28_Witness ==
    /\ call.fn = "process_file" /\ call.arg = 500
    /\ pc = "Done"
    /\ audio.len > FRAME_S
    /\ out.out_start = Round(FRAME_S * VIB_SR, AUDIO_SR)
    /\ out_wav.written /\ ~AllZero(out_wav.data)

\* eq.(1) over the bins from 25 Hz to f_max with the constant C_use
\* (thousandths), clamped at 0, in 1/PU
BandLoudness(kind, f_max, C_use) ==
    Max(0, MulDiv(SumOver(LAMBDA k : (Decibel(MulDiv(c, Mag(kind, k), 1000)) * 10000)
                                         \div iso60phon(Freq(k)),
                          FirstBin, LastBin(f_max)),
                  C_use * 113, 10000))

\* the loudness of every frame kind in either band, computed once
BandLoudnesses == [k \in FrameKinds |-> [music |-> BandLoudness(k, 200, 1910),
                                         other |-> BandLoudness(k, 6400, 65)]]

\* C29: the content tag is never validated. Within one pass the loudness and
\* the targets take the same branch: for the tag "music" the band up to
\* 200 Hz with the constant 1.91 and Iv = max(0, CL*L - OL); for every other
\* tag, documented or not, the band up to 6400 Hz with the constant 0.065 and
\* Iv = max(0, CR*sqrt(L)*R^2 - OR). No tag makes the run raise, and a tag
\* other than "music" gives the output of "game".
C29_TagNotValidated ==
    call.fn = "process_file" =>
        /\ pc # "raised"
        /\ pc \in {"map", "invert", "synthesize", "place"} =>
              La = IF content = "music" THEN BandLoudnesses[block.kind].music
                                        ELSE BandLoudnesses[block.kind].other
        /\ pc \in {"invert", "synthesize", "place"} =>
              /\ Iv = IF content = "music" THEN Max(0, IvMusic(La))
                                           ELSE Max(0, IvGame(La, Ra))
              /\ Rv = CV * Ra
        /\ pc = "Done" =>
              out_wav.data = process_file(audio, IF content = "music" THEN "music" ELSE "game")

\* a finished run under a tag that is not documented, with a sounding output
C29_Witness ==
    /\ call.fn = "process_file"
    /\ content = "podcast"
    /\ pc = "Done"
    /\ out_wav.written /\ ~AllZero(out_wav.data)
    /\ out_wav.data = process_file(audio, "game")
    /\ out_wav.data # process_file(audio, "music")

----------------------------------------------------------------------------
(* generate_vibrations, backend/app.py lines 138-321 *)

\* the algorithms, in the order of their blocks
Algs == <<"freqshift", "hapticgen", "percept", "pitch", "model1", "model2">>

\* what the body of a block can do: write its output file, raise, return
\* without a file, return False (pitch_process), or not be there to call
\* (PITCH_AVAILABLE false, model1_inference or model2_inference None).
\* FreqShift.process_file and HapticGen.process_file end in sf.write, which
\* writes the file or raises.
Outcomes(alg) ==
    CASE alg \in {"freqshift", "hapticgen"} -> {"written", "raised"}
      [] alg = "pitch" -> {"unavailable", "written", "failed", "raised"}
      [] alg \in {"model1", "model2"} -> {"unavailable", "written", "no_file", "raised"}

\* the entry of results that a block leaves, as a sequence of no or one entry
Entries(alg, outcome) ==
    CASE outcome = "written" -> <<[alg |-> alg, kind |-> "data", error |-> "none"]>>
      [] outcome = "raised" -> <<[alg |-> alg, kind |-> "error", error |-> "exception"]>>
      [] outcome = "unavailable" -> <<[alg |-> alg, kind |-> "error", error |-> "not available"]>>
      [] outcome = "failed" -> <<[alg |-> alg, kind |-> "error", error |-> "failed to generate output"]>>
      [] outcome = "no_file" ->
            IF alg \in {"model1", "model2"}
            THEN <<[alg |-> alg, kind |-> "error", error |-> "output file not generated"]>>
            ELSE IF alg = "pitch"
            THEN <<[alg |-> alg, kind |-> "error", error |-> "failed to generate output"]>>
            ELSE <<>>

\* variant: the blocks have no handler of their own, only the one of the
\* request at line 319
Handler_Request(alg) == "request"

\* the except clause that catches an exception raised in the block of alg:
\* lines 185, 204, 225, 249, 269, 291
Handler(alg) == "block"

NoResponse == [status |-> 0, success |-> FALSE, results |-> <<>>]

\* the end of a block with the outcome: the entry is recorded and the next
\* block follows, or the exception leaves the request through line 319
Finish(alg, outcome, next) ==
    IF outcome = "raised" /\ Handler(alg) # "block"
    THEN /\ call' = [call EXCEPT !.out.response =
                        [status |-> 500, success |-> FALSE, results |-> <<>>]]
         /\ pc' = "responded"
    ELSE /\ call' = [call EXCEPT !.out.results = @ \o Entries(alg, outcome)]
         /\ pc' = next

RunBlock(alg, next) ==
    /\ pc = alg
    /\ \E outcome \in Outcomes(alg) : Finish(alg, outcome, next)
    /\ UNCHANGED <<workers, cli, probe, content, La, Ra, Iv, Rv, amp, pipe>>

\* lines 143-160
Validate ==
    /\ pc = "request"
    /\ IF call.arg.file = "ok"
       THEN /\ pc' = "freqshift"
            /\ UNCHANGED call
       ELSE /\ call' = [call EXCEPT !.out.response =
                           [status |-> 400, success |-> FALSE, results |-> <<>>]]
            /\ pc' = "responded"
    /\ UNCHANGED <<workers, cli, probe, content, La, Ra, Iv, Rv, amp, pipe>>

\* lines 168-187
RunFreqShift == RunBlock("freqshift", "hapticgen")

\* lines 189-206
RunHapticGen == RunBlock("hapticgen", "percept")

\* lines 208-216: percept_process is process_file of Percept.py
CallPercept ==
    /\ pc = "percept"
    /\ pc' = "Start"
    /\ UNCHANGED <<call, workers, cli, probe, content, La, Ra, Iv, Rv, amp, pipe>>

\* lines 218-227
ReturnPercept ==
    /\ pc \in {"Done", "raised"}
    /\ Finish("percept",
              IF pc = "raised" THEN "raised"
              ELSE IF out_wav.written THEN "written" ELSE "no_file",
              "pitch")
    /\ UNCHANGED <<workers, cli, probe, content, La, Ra, Iv, Rv, amp, pipe>>

\* lines 229-251
RunPitch == RunBlock("pitch", "model1")

\* lines 254-273
RunModel1 == RunBlock("model1", "model2")

\* lines 276-295
RunModel2 == RunBlock("model2", "respond")

\* lines 297-317: every entry with a file that exists or with an error goes
\* into the response
Respond ==
    /\ pc = "respond"
    /\ call' = [call EXCEPT !.out.response =
                   [status |-> 200, success |-> TRUE,
                    results |-> SelectSeq(call.out.results,
                                          LAMBDA e : e.kind \in {"data", "error"})]]
    /\ pc' = "responded"
    /\ UNCHANGED <<workers, cli, probe, content, La, Ra, Iv, Rv, amp, pipe>>

NextBackend ==
    \/ Validate
    \/ RunFreqShift
    \/ RunHapticGen
    \/ CallPercept
    \/ Next
    \/ ReturnPercept
    \/ RunPitch
    \/ RunModel1
    \/ RunModel2
    \/ Respond

\* the upload: no file part, an empty name, a name with another ending, or
\* a file with an accepted name
Uploads == {"absent", "no_name", "bad_ext", "ok"}

\* the audio of an upload that sf.read can decode
BackendAudios ==
    {[len |-> n, kinds |-> [i \in 1..NumFrames(n) |-> "harsh"]] : n \in {1, FRAME_S + 1}}

\* line 215 passes content="game"; the upload is saved as input_audio.wav
\* whatever its format, so sf.read may fail on it
InitBackend ==
    /\ pc = "request"
    /\ probe = [kind |-> "backend", S |-> 0]
    /\ content = "game"
    /\ \E f \in Uploads :
          /\ call = [fn |-> "generate_vibrations", arg |-> [file |-> f],
                     out |-> [results |-> <<>>, response |-> NoResponse]]
          /\ IF f = "ok"
             THEN \/ cli = NoCli /\ audio \in BackendAudios
                  \/ /\ cli = [NoCli EXCEPT !.input_file = "unreadable"]
                     /\ audio = [len |-> 0, kinds |-> <<>>]
             ELSE cli = NoCli /\ audio = [len |-> 0, kinds |-> <<>>]
    /\ La = 0 /\ Ra = 0 /\ Iv = 0 /\ Rv = 0
    /\ amp = EarlyReturn
    /\ n_out_total = 0 /\ vib_full = <<>> /\ start = 0
    /\ block = NoBlock /\ vib_seg = <<>> /\ out = NoOut
    /\ current_rms = NoRms /\ out_wav = NotWritten /\ workers = <<>>

SpecBackend == InitBackend /\ [][NextBackend]_vars

\* every block is left in the end and the response is sent
FairBackend == SpecBackend /\ WF_vars(NextBackend)

----------------------------------------------------------------------------
(* Properties of generate_vibrations (under FairBackend) *)

\* the number of blocks that were left when the request is at pc
BlocksDone ==
    CASE pc \in {"request", "freqshift"} -> 0
      [] pc = "hapticgen" -> 1
      [] pc = "pitch" -> 3
      [] pc = "model1" -> 4
      [] pc = "model2" -> 5
      [] pc \in {"respond", "responded"} -> 6
      [] OTHER -> 2

AlgsOf(entries) == [i \in 1..Len(entries) |-> entries[i].alg]

\* C30: the failures of the algorithms are isolated. A block that raises
\* leaves an error entry for its own algorithm and changes no other entry;
\* the blocks after it are still run; and a request with an accepted upload
\* always ends in a success response (status 200) with exactly one entry,
\* data or error, for each of freqshift, hapticgen, percept, pitch, model1
\* and model2.
C30_FailuresIsolated ==
    /\ [](call.arg.file = "ok" =>
            /\ call.out.response.status \in {0, 200}
            /\ AlgsOf(call.out.results) = SubSeq(Algs, 1, BlocksDone)
            /\ \A i \in 1..Len(call.out.results) :
                  call.out.results[i].kind \in {"data", "error"}
            /\ pc = "raised" => cli.input_file = "unreadable"
            /\ pc = "responded" =>
                  /\ call.out.response = [status |-> 200, success |-> TRUE,
                                          results |-> call.out.results]
                  /\ Len(call.out.response.results) = Len(Algs)
                  /\ (cli.input_file = "unreadable") =
                         (call.out.results[3] =
                             [alg |-> "percept", kind |-> "error", error |-> "exception"])
                  /\ (cli.input_file = "ok") = (call.out.results[3].kind = "data"))
    /\ [][\A i \in 1..Len(call.out.results) :
              /\ i <= Len(call.out.results')
              /\ call.out.results'[i] = call.out.results[i]]_vars
    /\ (pc = "freqshift") ~> (pc = "responded" /\ call.out.response.status = 200)

\* a response to a request in which freqshift and percept raised, model1
\* raised, and hapticgen and model2 still wrote their files
C30_Witness ==
    /\ pc = "responded"
    /\ call.out.response.success
    /\ Len(call.out.response.results) = 6
    /\ call.out.response.results[1] = [alg |-> "freqshift", kind |-> "error", error |-> "exception"]
    /\ call.out.response.results[2].kind = "data"
    /\ call.out.response.results[3] = [alg |-> "percept", kind |-> "error", error |-> "exception"]
    /\ call.out.response.results[5] = [alg |-> "model1", kind |-> "error", error |-> "exception"]
    /\ call.out.response.results[6].kind = "data"

=============================================================================
